---- MODULE Spec2Model ----
(***************************************************************************)
(* DomainThings: domain-status resolution engine, alert scheduler and the  *)
(* durable alert store shared by the foreground page and the service       *)
(* worker.                                                                 *)
(*                                                                         *)
(* Alert times are counted in hours; a Date object and the ISO string of   *)
(* the same instant are the same value there, NoTime stands for undefined. *)
(* RDAP event dates are ISO strings parsed to days since the epoch, and    *)
(* the engine's timers are in milliseconds.                                *)
(***************************************************************************)
EXTENDS Integers, Sequences, FiniteSets, TLC

VARIABLES
    \* ---- alert subsystem (alertService.ts, dbService, service worker) ----
    store,          \* the 'alerts' object store of IndexedDB (keyPath id)
    alerts,         \* AlertService.alerts: the foreground in-memory cache
    swInbox,        \* messages posted to the service worker, not yet handled
    calls,          \* foreground AlertService calls in progress
    passes,         \* checkAndSendNotifications runs in the service worker
    clock,          \* wall clock (hours)
    nextId,         \* next fresh alert id (generateAlertId)
    activated,      \* the worker's activate event has fired
    started,        \* number of foreground calls started so far
    syncReport,     \* what handleSyncAlerts logged last: "none", "success", "failure"
    dbVersion,      \* version of the database 'domaincheck-db' (0: not created)
    \* ---- due-ness function applied to drawn inputs ----
    dueIn, dueOut,
    \* ---- resolution engine (DomainItem.vue) and its two clients ----
    domainName,             \* props.domainName
    mounted,                \* "no", "yes", "gone"
    debounceTimer,          \* the debounce timer is pending
    changes,                \* changes of the prop so far
    availabilityStatus,     \* ref availabilityStatus
    domainInfo,             \* ref domainInfo
    isLoadingAvailability,  \* ref isLoadingAvailability
    isLoadingRdap,          \* ref isLoadingRdap
    lookups,                \* runs of checkDomainAvailabilityWithRdap
    lookupsStarted,         \* runs started so far
    responseCache,          \* rdapService.responseCache
    dnsCache,               \* dnsService.dnsCache
    \* ---- DomainCheckResult constructors applied to drawn inputs ----
    chkIn, chkOut,
    \* ---- callers of fetchDns and fetchRdap, and the clock the caches read ----
    dateNow,                    \* Date.dateNow(), ms
    ticks,                  \* times the clock has advanced
    fetches,                \* calls of fetchDns / fetchRdap
    fetchesStarted,         \* calls started so far
    \* ---- bookmarks (DomainItem.vue over the 'domains' object store) ----
    domainsStore,           \* keys of the 'domains' object store
    isBookmarked,           \* ref isBookmarked of the item of each domain
    isLoadingBookmark,      \* ref isLoadingBookmark of the item of each domain
    \* ---- RDAP bootstrap (rdapService.getServices and its callers) ----
    cachedServices,         \* rdapService.cachedServices is not null
    lastBootstrapFetch,     \* rdapService.lastBootstrapFetch, ms
    bootCalls,              \* calls of getServices
    bootStarted,            \* calls started so far
    \* ---- provider selection of fetchRdap on drawn inputs ----
    servicesData,           \* servicesResult.data: the bootstrap services array
    selections,             \* what fetchRdap selected for each domain it was given
    \* ---- notifications the service worker has shown ----
    notifications           \* showNotification calls that resolved, by alert id

alertVars == <<store, alerts, swInbox, calls, passes, clock, nextId, activated, started,
               syncReport, dbVersion>>
dueVars   == <<dueIn, dueOut>>
engineVars == <<domainName, mounted, debounceTimer, changes, availabilityStatus,
                domainInfo, isLoadingAvailability, isLoadingRdap, lookups,
                lookupsStarted, responseCache, dnsCache>>
checkVars == <<chkIn, chkOut>>
clientVars == <<dateNow, ticks, fetches, fetchesStarted>>
bookmarkVars == <<domainsStore, isBookmarked, isLoadingBookmark>>
bootVars == <<cachedServices, lastBootstrapFetch, bootCalls, bootStarted>>
componentVars == <<domainName, mounted, debounceTimer, changes, availabilityStatus,
                   domainInfo, isLoadingAvailability, isLoadingRdap, lookups,
                   lookupsStarted>>
vars      == <<store, alerts, swInbox, calls, passes, clock, nextId, activated, started,
               syncReport, dbVersion,
               dueIn, dueOut,
               domainName, mounted, debounceTimer, changes, availabilityStatus,
               domainInfo, isLoadingAvailability, isLoadingRdap, lookups,
               lookupsStarted, responseCache, dnsCache,
               chkIn, chkOut,
               dateNow, ticks, fetches, fetchesStarted,
               domainsStore, isBookmarked, isLoadingBookmark,
               cachedServices, lastBootstrapFetch, bootCalls, bootStarted,
               servicesData, selections,
               notifications>>
providerVars == <<servicesData, selections>>
notifyVars == <<notifications>>
nonAlertVars  == <<dueVars, engineVars, checkVars, clientVars, bookmarkVars, bootVars, providerVars, notifyVars>>
\* what a step of the alert subsystem other than handleSyncAlerts leaves alone
\* when the schema version is not followed
restVars      == <<nonAlertVars, syncReport, dbVersion>>
nonDueVars    == <<alertVars, engineVars, checkVars, clientVars, bookmarkVars, bootVars, providerVars, notifyVars>>
nonEngineVars == <<alertVars, dueVars, checkVars, clientVars, bookmarkVars, bootVars, providerVars, notifyVars>>
nonCheckVars  == <<alertVars, dueVars, engineVars, clientVars, bookmarkVars, bootVars, providerVars, notifyVars>>
nonClientVars == <<alertVars, dueVars, componentVars, checkVars, bookmarkVars, bootVars, providerVars, notifyVars>>
nonBookmarkVars == <<alertVars, dueVars, engineVars, checkVars, clientVars, bootVars, providerVars, notifyVars>>
nonBootVars == <<alertVars, dueVars, engineVars, checkVars, bookmarkVars,
                 ticks, fetches, fetchesStarted, providerVars, notifyVars>>
nonProviderVars == <<alertVars, dueVars, engineVars, checkVars, clientVars,
                     bookmarkVars, bootVars, notifyVars>>

\* ---------------------------------------------------------------------------
\* Bounds
\* ---------------------------------------------------------------------------
MaxOps    == 2      \* foreground calls started in one behaviour
MaxPasses == 1      \* scan passes that may overlap
MaxInbox  == 1      \* unhandled messages to the worker
MaxDays   == 1      \* days the clock may advance
MaxDueNow == 216    \* last "now" drawn for the due-ness function (hours)
MaxLookups == 2     \* runs of the resolution engine in one behaviour
MaxChanges == 1     \* changes of the domainName prop that arm the debounce timer
MaxBurst == 2       \* changes of the prop within one debounce window
MaxFetches == 2     \* calls of fetchDns / fetchRdap in one behaviour
MaxTicks == 1       \* advances of the clock in one behaviour
MaxBootCalls == 3   \* calls of getServices in one behaviour
MaxBootTicks == 2   \* advances of the clock between calls of getServices

MaxCalls  == MaxOps \* foreground calls that may overlap
MaxIds    == MaxOps \* alert ids ever generated

\* ---------------------------------------------------------------------------
\* Program constants
\* ---------------------------------------------------------------------------
DAY     == 24
NoTime  == -1
Frequencies == {"once", "daily", "weekly"}
Domains == {"a.com", "b.com"}

Ids     == 1..MaxIds
CallIds == 1..MaxCalls
PassIds == 1..MaxPasses

\* ---------------------------------------------------------------------------
\* Object store primitives (IndexedDB store with keyPath 'id')
\* ---------------------------------------------------------------------------
\* store.put(record): insert, or replace the record with the same key
StorePut(S, r) == {x \in S : x.id # r.id} \cup {r}

\* store.delete(key)
StoreDelete(S, key) == {x \in S : x.id # key}

\* index('domain').getAllKeys(domain)
IndexKeysByDomain(S, domain) == {x.id : x \in {y \in S : y.domain = domain}}

\* ---------------------------------------------------------------------------
\* Due-ness
\* ---------------------------------------------------------------------------
\* shouldSendNotification without its test of lastNotified
shouldSendNotificationRepeating(alert, now) ==
    IF now < alert.alertDate THEN FALSE
    ELSE TRUE

\* Service worker 2.0.0: due once now >= alertDate, until lastNotified is set.
shouldSendNotification(alert, now) ==
    IF now < alert.alertDate THEN FALSE
    ELSE IF alert.lastNotified # NoTime THEN FALSE
    ELSE TRUE

\* Earlier service worker: alertDate is derived from expirationDate and
\* daysBeforeExpiration, and the reminder frequency is honoured.
shouldSendNotificationV1(alert, now) ==
    LET alertDate == alert.expirationDate - DAY * alert.daysBeforeExpiration
        elapsed   == now - alert.lastNotified
    IN  IF now < alertDate THEN FALSE
        ELSE IF alert.lastNotified # NoTime
             THEN CASE alert.reminderFrequency = "once"   -> FALSE
                    [] alert.reminderFrequency = "daily"  -> elapsed >= 1 * DAY
                    [] alert.reminderFrequency = "weekly" -> elapsed >= 7 * DAY
                    [] OTHER -> FALSE
             ELSE TRUE

UpdatedAlertUnstamped(alert, now) == alert

\* The record the pass writes back after notifying
UpdatedAlert(alert, now) == [alert EXCEPT !.lastNotified = now]

\* ---------------------------------------------------------------------------
\* Foreground: AlertService (alertService.ts) over dbService
\* ---------------------------------------------------------------------------
\* Inputs the alert form can submit (CreateAlertInput; lastNotified is never
\* supplied by a caller, so a new alert starts with it undefined)
InputShapes ==
    { [enabled |-> TRUE,  alertDate |-> 0,   reminderFrequency |-> "once"],
      [enabled |-> FALSE, alertDate |-> DAY, reminderFrequency |-> "daily"] }

\* (failed: a dbService operation of the call has returned a failure result;
\* outcome: how the last call in this slot ended, "returned" or "threw")
NoCall == [op |-> "none", pc |-> "idle", domain |-> "", id |-> 0,
           enabled |-> FALSE, alertDate |-> 0, reminderFrequency |-> "once",
           ok |-> FALSE, n |-> 0, snap |-> {}, failed |-> FALSE,
           outcome |-> "none"]
Ended(outcome) == [NoCall EXCEPT !.outcome = outcome]

IdlePass == [pc |-> "idle", now |-> 0, alerts |-> {}, i |-> 0, sent |-> {},
             errorsEncountered |-> 0, saveOk |-> FALSE]

\* The alert saveAlert builds from its input and a fresh id
NewAlert(c, id) ==
    [id |-> id, domain |-> c.domain, enabled |-> c.enabled,
     alertDate |-> c.alertDate, reminderFrequency |-> c.reminderFrequency,
     lastNotified |-> NoTime]

\* SYNC_ALERTS message built from the cache (syncAlertsToServiceWorker)
SyncMessage(cache) == [type |-> "SYNC_ALERTS", alerts |-> cache]
CheckMessage       == [type |-> "CHECK_NOTIFICATIONS", alerts |-> {}]

\* saves that have been started and have not drawn their id yet
PendingSaves ==
    Cardinality({c \in CallIds : calls[c].op = "saveAlert"
                                 /\ calls[c].pc \in {"removing", "removed"}})

\* a caller may start a call: the lowest free slot takes it
CanStart(c) ==
    /\ started < MaxOps
    /\ calls[c].pc = "idle"
    /\ \A b \in CallIds : b < c => calls[b].pc # "idle"

\* saveAlert(alertInput): validates, then awaits removeAlertByDomain
CallSaveAlert(c) ==
    /\ CanStart(c)
    /\ started' = started + 1
    /\ nextId + PendingSaves <= MaxIds
    /\ \E d \in Domains, s \in InputShapes :
          calls' = [calls EXCEPT ![c] =
                      [NoCall EXCEPT !.op = "saveAlert", !.pc = "removing",
                                     !.domain = d, !.enabled = s.enabled,
                                     !.alertDate = s.alertDate,
                                     !.reminderFrequency = s.reminderFrequency]]
    /\ UNCHANGED <<store, alerts, swInbox, passes, clock, nextId, activated>>

\* removeAlertByDomain(domain) called on its own
CallRemoveAlertByDomain(c) ==
    /\ CanStart(c)
    /\ started' = started + 1
    /\ \E d \in Domains :
          calls' = [calls EXCEPT ![c] =
                      [NoCall EXCEPT !.op = "removeAlertByDomain",
                                     !.pc = "removing", !.domain = d]]
    /\ UNCHANGED <<store, alerts, swInbox, passes, clock, nextId, activated>>

\* db.removeAlertsByDomain: one readwrite transaction, or a failure result
DbRemoveAlertsByDomain(c) ==
    /\ calls[c].pc = "removing"
    /\ \E ok \in BOOLEAN :
          LET keys == IndexKeysByDomain(store, calls[c].domain) IN
          /\ store' = IF ok THEN {x \in store : x.id \notin keys} ELSE store
          /\ calls' = [calls EXCEPT ![c].pc = "removed", ![c].ok = ok,
                                    ![c].failed = ~ok,
                                    ![c].n = IF ok THEN Cardinality(keys) ELSE 0]
    /\ UNCHANGED <<alerts, swInbox, passes, clock, nextId, activated, started>>

\* removeAlertByDomain after the transaction; for saveAlert, the alert is then
\* built and db.saveAlert is issued
AfterRemoveAlertsByDomain(c) ==
    /\ calls[c].pc = "removed"
    /\ LET removed == calls[c].ok /\ calls[c].n > 0
           cache   == IF removed
                      THEN {a \in alerts : a.domain # calls[c].domain}
                      ELSE alerts
       IN  /\ removed => Len(swInbox) < MaxInbox
           /\ alerts' = cache
           /\ swInbox' = IF removed THEN Append(swInbox, SyncMessage(cache))
                         ELSE swInbox
           /\ IF calls[c].op = "saveAlert"
              THEN /\ calls' = [calls EXCEPT ![c].pc = "putting", ![c].id = nextId]
                   /\ nextId' = nextId + 1
              ELSE /\ calls' = [calls EXCEPT ![c] = Ended("returned")]
                   /\ nextId' = nextId
    /\ UNCHANGED <<store, passes, clock, activated, started>>

\* db.saveAlert: store.put in one transaction, or a failure result
DbSaveAlert(c) ==
    /\ calls[c].pc = "putting"
    /\ \E ok \in BOOLEAN :
          /\ store' = IF ok THEN StorePut(store, NewAlert(calls[c], calls[c].id))
                      ELSE store
          /\ calls' = [calls EXCEPT ![c].pc = "put", ![c].ok = ok,
                                    ![c].failed = @ \/ ~ok]
    /\ UNCHANGED <<alerts, swInbox, passes, clock, nextId, activated, started>>

\* saveAlert after db.saveAlert: throw on failure, else cache, sync, return
AfterSaveAlert(c) ==
    /\ calls[c].pc = "put"
    /\ IF calls[c].ok
       THEN LET cache == StorePut(alerts, NewAlert(calls[c], calls[c].id)) IN
            /\ Len(swInbox) < MaxInbox
            /\ alerts' = cache
            /\ swInbox' = Append(swInbox, SyncMessage(cache))
            /\ calls' = [calls EXCEPT ![c] = Ended("returned")]
       ELSE /\ calls' = [calls EXCEPT ![c] = Ended("threw")]
            /\ UNCHANGED <<alerts, swInbox>>
    /\ UNCHANGED <<store, passes, clock, nextId, activated, started>>

\* removeAlert(alertId)
CallRemoveAlert(c) ==
    /\ CanStart(c)
    /\ started' = started + 1
    /\ \E id \in 1..(nextId - 1) :
          calls' = [calls EXCEPT ![c] =
                      [NoCall EXCEPT !.op = "removeAlert", !.pc = "deleting",
                                     !.id = id]]
    /\ UNCHANGED <<store, alerts, swInbox, passes, clock, nextId, activated>>

\* db.removeAlert: get, then delete when the record exists
DbRemoveAlert(c) ==
    /\ calls[c].pc = "deleting"
    /\ \E ok \in BOOLEAN :
          LET existing == \E x \in store : x.id = calls[c].id IN
          /\ store' = IF ok THEN StoreDelete(store, calls[c].id) ELSE store
          /\ calls' = [calls EXCEPT ![c].pc = "deleted", ![c].ok = ok,
                                    ![c].failed = ~ok,
                                    ![c].n = IF ok /\ existing THEN 1 ELSE 0]
    /\ UNCHANGED <<alerts, swInbox, passes, clock, nextId, activated, started>>

AfterRemoveAlert(c) ==
    /\ calls[c].pc = "deleted"
    /\ LET removed == calls[c].ok /\ calls[c].n > 0
           cache   == IF removed THEN StoreDelete(alerts, calls[c].id) ELSE alerts
       IN  /\ removed => Len(swInbox) < MaxInbox
           /\ alerts' = cache
           /\ swInbox' = IF removed THEN Append(swInbox, SyncMessage(cache))
                         ELSE swInbox
           /\ calls' = [calls EXCEPT ![c] = Ended("returned")]
    /\ UNCHANGED <<store, passes, clock, nextId, activated, started>>

\* getAllAlerts()
CallGetAllAlerts(c) ==
    /\ CanStart(c)
    /\ started' = started + 1
    /\ calls' = [calls EXCEPT ![c] =
                    [NoCall EXCEPT !.op = "getAllAlerts", !.pc = "reading"]]
    /\ UNCHANGED <<store, alerts, swInbox, passes, clock, nextId, activated>>

\* db.getAllAlerts: store.getAll in a readonly transaction, or a failure
DbGetAllAlerts(c) ==
    /\ calls[c].pc = "reading"
    /\ \E ok \in BOOLEAN :
          calls' = [calls EXCEPT ![c].pc = "read", ![c].ok = ok,
                                 ![c].failed = ~ok,
                                 ![c].snap = IF ok THEN store ELSE {}]
    /\ UNCHANGED <<store, alerts, swInbox, passes, clock, nextId, activated, started>>

\* getAllAlerts that returns an empty list when the read fails
getAllAlertsNoFallback(ok, records, cache) ==
    IF ok THEN [cache |-> records, returned |-> records]
    ELSE [cache |-> cache, returned |-> {}]

\* getAllAlerts from the dbService result on: the cache it leaves and the
\* alerts it returns
getAllAlerts(ok, records, cache) ==
    IF ok THEN [cache |-> records, returned |-> records]
    ELSE [cache |-> cache, returned |-> cache]

\* getAllAlerts after the read: refresh the cache, or fall back to it; the
\* slot keeps what the call returned and whether its read had failed
AfterGetAllAlerts(c) ==
    /\ calls[c].pc = "read"
    /\ LET r == getAllAlerts(calls[c].ok, calls[c].snap, alerts)
       IN  /\ alerts' = r.cache
           /\ calls' = [calls EXCEPT ![c] =
                          [Ended("returned") EXCEPT !.snap = r.returned,
                                                    !.failed = calls[c].failed]]
    /\ UNCHANGED <<store, swInbox, passes, clock, nextId, activated, started>>

\* triggerNotificationCheck(): posts CHECK_NOTIFICATIONS
TriggerNotificationCheck ==
    /\ Len(swInbox) < MaxInbox
    /\ swInbox' = Append(swInbox, CheckMessage)
    /\ UNCHANGED <<store, alerts, calls, passes, clock, nextId, activated, started>>

\* ---------------------------------------------------------------------------
\* Background: the service worker
\* ---------------------------------------------------------------------------
\* normalizeDate inside syncAlertsToIndexedDB: falsy stays as it is, anything
\* else becomes the ISO string of the same instant
normalizeDate(value) == IF value = NoTime THEN NoTime ELSE value

\* the record syncAlertsToIndexedDB puts for one alert of the message
NormalizedAlert(alert) ==
    [alert EXCEPT !.lastNotified = normalizeDate(alert.lastNotified)]

\* syncAlertsToIndexedDB(alerts): clear the store, then put every alert
SyncedStore(msgAlerts) == {NormalizedAlert(a) : a \in msgAlerts}

\* How the readwrite transaction of syncAlertsToIndexedDB can go:
\*   "committed"     clear and every put succeed;
\*   "failed"        the open, the clear or a put other than the last fails:
\*                   transaction.onerror (or the catch) resolves a failure;
\*   "lastPutFailed" the last put fails: putRequest.onerror runs first and
\*                   its checkCompletion resolves success, then the error
\*                   aborts the transaction.
\* An aborted transaction leaves the store as it was before the clear.
SyncOutcomes(msgAlerts) ==
    {"committed", "failed"} \cup (IF msgAlerts = {} THEN {} ELSE {"lastPutFailed"})

syncAlertsToIndexedDB(S, msgAlerts, outcome) ==
    [store   |-> IF outcome = "committed" THEN SyncedStore(msgAlerts) ELSE S,
     success |-> outcome \in {"committed", "lastPutFailed"}]

FreePass(p) == passes[p].pc = "idle"

\* checkAndSendNotifications() is entered
StartPass(p) == passes' = [passes EXCEPT ![p] = [IdlePass EXCEPT !.pc = "loading"]]

\* 'activate': setupBackgroundSync performs the initial notification check
Activate(p) ==
    /\ ~activated
    /\ FreePass(p)
    /\ activated' = TRUE
    /\ StartPass(p)
    /\ UNCHANGED <<store, alerts, swInbox, calls, clock, nextId, started>>

\* 'periodicsync' with tag check-domain-alerts
PeriodicSync(p) ==
    /\ activated
    /\ FreePass(p)
    /\ StartPass(p)
    /\ UNCHANGED <<store, alerts, swInbox, calls, clock, nextId, activated, started>>

\* handleMessage, CHECK_NOTIFICATIONS
HandleCheckNotifications(p) ==
    /\ activated
    /\ swInbox # << >>
    /\ Head(swInbox).type = "CHECK_NOTIFICATIONS"
    /\ FreePass(p)
    /\ swInbox' = Tail(swInbox)
    /\ StartPass(p)
    /\ UNCHANGED <<store, alerts, calls, clock, nextId, activated, started>>

\* handleMessage, SYNC_ALERTS: handleSyncAlerts -> syncAlertsToIndexedDB
HandleSyncAlerts ==
    /\ activated
    /\ swInbox # << >>
    /\ Head(swInbox).type = "SYNC_ALERTS"
    /\ swInbox' = Tail(swInbox)
    /\ \E outcome \in SyncOutcomes(Head(swInbox).alerts) :
          LET result == syncAlertsToIndexedDB(store, Head(swInbox).alerts, outcome)
          IN  /\ store' = result.store
              /\ syncReport' = IF result.success THEN "success" ELSE "failure"
    /\ UNCHANGED <<alerts, calls, passes, clock, nextId, activated, started>>

\* loadAlertsFromDB, then now = new Date()
PassLoad(p) ==
    /\ passes[p].pc = "loading"
    /\ \E ok \in BOOLEAN :
          passes' = [passes EXCEPT ![p] =
                       IF ok THEN [@ EXCEPT !.pc = "scan", !.alerts = store,
                                            !.now = clock, !.i = 1]
                             ELSE [@ EXCEPT !.pc = "done"]]
    /\ UNCHANGED <<store, alerts, swInbox, calls, clock, nextId, activated, started>>

\* alerts of the snapshot not yet visited, in key order
Remaining(p) == {a \in passes[p].alerts : a.id >= passes[p].i}
Current(p)   == CHOOSE a \in Remaining(p) : \A b \in Remaining(p) : a.id <= b.id

\* the for loop: skip alerts that are not due, stop at the first due one
PassScan(p) ==
    /\ passes[p].pc = "scan"
    /\ IF Remaining(p) = {}
       THEN passes' = [passes EXCEPT ![p].pc = "done"]
       ELSE IF shouldSendNotification(Current(p), passes[p].now)
            THEN passes' = [passes EXCEPT ![p].pc = "showing", ![p].i = Current(p).id]
            ELSE passes' = [passes EXCEPT ![p].i = Current(p).id + 1]
    /\ UNCHANGED <<store, alerts, swInbox, calls, clock, nextId, activated, started>>

\* a pass that gives up at the first notification it cannot show
PassShowAborting(p) ==
    /\ passes[p].pc = "showing"
    /\ \E ok \in BOOLEAN :
          passes' = [passes EXCEPT ![p] =
                       IF ok THEN [@ EXCEPT !.pc = "saving",
                                            !.sent = @ \cup {passes[p].i}]
                             ELSE [@ EXCEPT !.pc = "done",
                                            !.errorsEncountered = 1]]
    /\ UNCHANGED <<store, alerts, swInbox, calls, clock, nextId, activated, started>>

\* sendBackgroundNotification: showNotification resolves or throws
PassShow(p) ==
    /\ passes[p].pc = "showing"
    /\ \E ok \in BOOLEAN :
          passes' = [passes EXCEPT ![p] =
                       IF ok THEN [@ EXCEPT !.pc = "saving",
                                            !.sent = @ \cup {passes[p].i}]
                             ELSE [@ EXCEPT !.pc = "scan", !.i = @ + 1,
                                            !.errorsEncountered = 1]]
    /\ UNCHANGED <<store, alerts, swInbox, calls, clock, nextId, activated, started>>

\* saveAlertToDB(updatedAlert): put, or a failure result that is only logged
PassSave(p) ==
    /\ passes[p].pc = "saving"
    /\ \E ok \in BOOLEAN :
          /\ store' = IF ok
                      THEN StorePut(store, UpdatedAlert(Current(p), passes[p].now))
                      ELSE store
          /\ passes' = [passes EXCEPT ![p].pc = "scan", ![p].i = @ + 1,
                                      ![p].saveOk = ok]
    /\ UNCHANGED <<alerts, swInbox, calls, clock, nextId, activated, started>>

\* checkAndSendNotifications returns
PassEnd(p) ==
    /\ passes[p].pc = "done"
    /\ passes' = [passes EXCEPT ![p] = IdlePass]
    /\ UNCHANGED <<store, alerts, swInbox, calls, clock, nextId, activated, started>>

\* time passes
Tick ==
    /\ clock + DAY <= MaxDays * DAY
    /\ clock' = clock + DAY
    /\ UNCHANGED <<store, alerts, swInbox, calls, passes, nextId, activated, started>>

\* ---------------------------------------------------------------------------
\* Strings.  A string is the sequence of its characters.
\* ---------------------------------------------------------------------------
UpperChars == <<"A","B","C","D","E","F","G","H","I","J","K","L","M",
                "N","O","P","Q","R","S","T","U","V","W","X","Y","Z">>
LowerChars == <<"a","b","c","d","e","f","g","h","i","j","k","l","m",
                "n","o","p","q","r","s","t","u","v","w","x","y","z">>
DigitChars == <<"0","1","2","3","4","5","6","7","8","9">>

Range(s) == {s[i] : i \in 1..Len(s)}

\* [a-zA-Z0-9]
AlnumChars == Range(UpperChars) \cup Range(LowerChars) \cup Range(DigitChars)

\* String.prototype.toLowerCase
toLowerCase(s) ==
    [i \in 1..Len(s) |->
        IF \E k \in 1..Len(UpperChars) : UpperChars[k] = s[i]
        THEN LowerChars[CHOOSE k \in 1..Len(UpperChars) : UpperChars[k] = s[i]]
        ELSE s[i]]

\* String.prototype.includes / startsWith / endsWith
includes(s, t) ==
    \E i \in 1..(Len(s) - Len(t) + 1) : SubSeq(s, i, i + Len(t) - 1) = t
startsWith(s, t) == Len(t) <= Len(s) /\ SubSeq(s, 1, Len(t)) = t
endsWith(s, t) == Len(t) <= Len(s) /\ SubSeq(s, Len(s) - Len(t) + 1, Len(s)) = t

\* String.prototype.split('.')
RECURSIVE split(_)
split(s) ==
    IF ~includes(s, <<".">>) THEN <<s>>
    ELSE LET i == CHOOSE k \in 1..Len(s) :
                      s[k] = "." /\ \A j \in 1..(k - 1) : s[j] # "."
         IN <<SubSeq(s, 1, i - 1)>> \o split(SubSeq(s, i + 1, Len(s)))

MAX_LABEL_LENGTH  == 63
MAX_DOMAIN_LENGTH == 253

\* one label of domainRegex: [a-zA-Z0-9]([a-zA-Z0-9-]{0,61}[a-zA-Z0-9])?
IsLabel(l) ==
    /\ Len(l) >= 1
    /\ Len(l) <= MAX_LABEL_LENGTH
    /\ l[1] \in AlnumChars
    /\ l[Len(l)] \in AlnumChars
    /\ \A i \in 1..Len(l) : l[i] \in AlnumChars \cup {"-"}

\* domainRegex.test(domain): label(\.label)*
domainRegex(s) == \A i \in 1..Len(split(s)) : IsLabel(split(s)[i])

\* rdapService.isValidDomainForRdap
isValidDomainForRdap(domain) ==
    IF domain = << >> THEN FALSE
    ELSE IF ~includes(domain, <<".">>) THEN FALSE
    ELSE domainRegex(domain) /\ Len(domain) <= MAX_DOMAIN_LENGTH

\* isValidDomain without the test of the total length
isValidDomainAnyLength(domain) ==
    IF domain = << >> THEN FALSE
    ELSE IF ~domainRegex(domain) THEN FALSE
    ELSE IF startsWith(domain, <<"-">>) \/ endsWith(domain, <<"-">>) THEN FALSE
    ELSE IF includes(domain, <<".", ".">>) THEN FALSE
    ELSE TRUE

\* dnsService.isValidDomain
isValidDomain(domain) ==
    IF domain = << >> THEN FALSE
    ELSE IF Len(domain) > MAX_DOMAIN_LENGTH THEN FALSE
    ELSE IF ~domainRegex(domain) THEN FALSE
    ELSE IF startsWith(domain, <<"-">>) \/ endsWith(domain, <<"-">>) THEN FALSE
    ELSE IF includes(domain, <<".", ".">>) THEN FALSE
    ELSE TRUE

\* rdapService.extractTld; the empty string stands for undefined (both falsy)
extractTld(domain) ==
    LET parts == split(domain)
    IN IF Len(parts) > 1 THEN parts[Len(parts)] ELSE << >>

\* ---------------------------------------------------------------------------
\* Map: a JavaScript Map, entries in insertion order
\* ---------------------------------------------------------------------------
MapHas(m, key) == \E i \in 1..Len(m) : m[i].key = key
MapGet(m, key) == m[CHOOSE i \in 1..Len(m) : m[i].key = key].value
MapSet(m, key, value) ==
    IF MapHas(m, key)
    THEN [i \in 1..Len(m) |-> IF m[i].key = key
                              THEN [key |-> key, value |-> value] ELSE m[i]]
    ELSE Append(m, [key |-> key, value |-> value])
MapDelete(m, key) ==
    LET Kept(e) == e.key # key IN SelectSeq(m, Kept)

\* isCacheEntryValid with a window one millisecond short, and with one that
\* includes its end
isCacheEntryValidShort(entry) == dateNow - entry.timestamp < entry.ttl - 1
isCacheEntryValidInclusive(entry) == dateNow - entry.timestamp <= entry.ttl

\* isCacheEntryValid, the same in rdapService and dnsService
isCacheEntryValid(entry) == dateNow - entry.timestamp < entry.ttl

\* ---------------------------------------------------------------------------
\* Domain check results (domainUtil.ts)
\* ---------------------------------------------------------------------------
NoDate      == -1               \* undefined Date
InvalidDate == -2               \* new Date(unparseable): Invalid Date
NoString    == "<undefined>"

\* new Date(eventDate), in days since the epoch
ParseDate(s) ==
    CASE s = "2020-01-01T00:00:00Z" -> 18262
      [] s = "2030-06-01T00:00:00Z" -> 22066
      [] OTHER -> InvalidDate

\* Array.prototype.find: index of the first element that matches, 0 if none
FirstEvent(events, eventAction) ==
    IF \E i \in 1..Len(events) : events[i].eventAction = eventAction
    THEN CHOOSE i \in 1..Len(events) :
            /\ events[i].eventAction = eventAction
            /\ \A j \in 1..(i - 1) : events[j].eventAction # eventAction
    ELSE 0

FirstEntity(entities, role) ==
    IF \E i \in 1..Len(entities) : role \in entities[i].roles
    THEN CHOOSE i \in 1..Len(entities) :
            /\ role \in entities[i].roles
            /\ \A j \in 1..(i - 1) : role \notin entities[j].roles
    ELSE 0

FirstField(vcardData, name) ==
    IF \E i \in 1..Len(vcardData) : vcardData[i].name = name
    THEN CHOOSE i \in 1..Len(vcardData) :
            /\ vcardData[i].name = name
            /\ \A j \in 1..(i - 1) : vcardData[j].name # name
    ELSE 0

extractExpirationDate(rdapResponse) ==
    IF Len(rdapResponse.events) = 0 THEN NoDate
    ELSE LET i == FirstEvent(rdapResponse.events, "expiration")
         IN IF i = 0 THEN NoDate
            ELSE IF rdapResponse.events[i].eventDate = "" THEN NoDate
            ELSE ParseDate(rdapResponse.events[i].eventDate)

extractCreationDate(rdapResponse) ==
    IF Len(rdapResponse.events) = 0 THEN NoDate
    ELSE LET i == FirstEvent(rdapResponse.events, "registration")
         IN IF i = 0 THEN NoDate
            ELSE IF rdapResponse.events[i].eventDate = "" THEN NoDate
            ELSE ParseDate(rdapResponse.events[i].eventDate)

\* a vCard field [name, {}, type, value]: name, the value (its first element
\* when it is an array) and whether the value is an array
extractRegistrar(rdapResponse) ==
    IF Len(rdapResponse.entities) = 0 THEN NoString
    ELSE LET e == FirstEntity(rdapResponse.entities, "registrar")
         IN IF e = 0 THEN NoString
            ELSE LET vcardData == rdapResponse.entities[e].vcard
                     org == FirstField(vcardData, "org")
                     fn  == FirstField(vcardData, "fn")
                 IN IF org # 0 /\ vcardData[org].isArray THEN vcardData[org].value
                    ELSE IF fn # 0 /\ ~vcardData[fn].isArray THEN vcardData[fn].value
                    ELSE NoString

createDomainCheckFromRdapMedium(rdapResponse) ==
    [availability   |-> "NOTAVAILABLE",
     expirationDate |-> extractExpirationDate(rdapResponse),
     creationDate   |-> extractCreationDate(rdapResponse),
     registrar      |-> extractRegistrar(rdapResponse),
     confidence     |-> "medium",
     source         |-> "rdap"]

createDomainCheckFromRdap(rdapResponse) ==
    [availability   |-> "NOTAVAILABLE",
     expirationDate |-> extractExpirationDate(rdapResponse),
     creationDate   |-> extractCreationDate(rdapResponse),
     registrar      |-> extractRegistrar(rdapResponse),
     confidence     |-> "high",
     source         |-> "rdap"]

createDomainCheckFromDns(availability) ==
    [availability   |-> availability,
     expirationDate |-> NoDate,
     creationDate   |-> NoDate,
     registrar      |-> NoString,
     confidence     |-> IF availability = "AVAILABLE" THEN "high" ELSE "medium",
     source         |-> "dns"]

\* rdapData: [given |-> FALSE] when the argument is omitted
createHybridDomainCheck(availability, rdapData) ==
    [availability   |-> availability,
     expirationDate |-> IF rdapData.given THEN rdapData.expirationDate ELSE NoDate,
     creationDate   |-> IF rdapData.given THEN rdapData.creationDate ELSE NoDate,
     registrar      |-> IF rdapData.given THEN rdapData.registrar ELSE NoString,
     confidence     |-> IF rdapData.given THEN "high" ELSE "medium",
     source         |-> "hybrid"]

\* no DomainCheckResult has been built
NoResult ==
    [availability |-> "none", expirationDate |-> NoDate, creationDate |-> NoDate,
     registrar |-> NoString, confidence |-> "none", source |-> "none"]

\* ---------------------------------------------------------------------------
\* Domain entity (types/index.ts)
\* ---------------------------------------------------------------------------
\* new Domain(name)
NewDomain(name) ==
    [isNull |-> FALSE, name |-> name, availability |-> "undefined",
     creationDate |-> NoDate, expirationDate |-> NoDate, registrar |-> NoString,
     lastChecked |-> FALSE]

\* the null held by domainInfo before any lookup wrote it
NullDomain == [NewDomain(<< >>) EXCEPT !.isNull = TRUE]

DomainWithNothing(this, updates) == this

\* Domain.with(updates): updates.x ?? this.x for every field but the name
DomainWith(this, updates) ==
    [isNull |-> FALSE,
     name |-> this.name,
     availability   |-> IF updates.availability # "undefined"
                        THEN updates.availability ELSE this.availability,
     creationDate   |-> IF updates.creationDate # NoDate
                        THEN updates.creationDate ELSE this.creationDate,
     expirationDate |-> IF updates.expirationDate # NoDate
                        THEN updates.expirationDate ELSE this.expirationDate,
     registrar      |-> IF updates.registrar # NoString
                        THEN updates.registrar ELSE this.registrar,
     lastChecked    |-> IF updates.lastChecked THEN TRUE ELSE this.lastChecked]

\* the update object both RDAP branches of the engine pass to with()
InfoUpdates(checkResult) ==
    [availability   |-> checkResult.availability,
     expirationDate |-> checkResult.expirationDate,
     creationDate   |-> checkResult.creationDate,
     registrar      |-> checkResult.registrar,
     lastChecked    |-> TRUE]

\* ---------------------------------------------------------------------------
\* RDAP client (rdapService.ts)
\* ---------------------------------------------------------------------------
MAX_RETRIES    == 2
RETRY_BACKOFF  == 1000          \* ms, times (retryCount + 1)
RESPONSE_CACHE_MAX == 500
RESPONSE_CACHE_TTL == 3600000   \* ms

\* RDAP documents the registries answer with.  A missing string member is "",
\* a missing array member is << >>.
EventsFull == << [eventAction |-> "registration", eventDate |-> "2020-01-01T00:00:00Z"],
                 [eventAction |-> "expiration",   eventDate |-> "2030-06-01T00:00:00Z"] >>
EventsOdd  == << [eventAction |-> "expiration",   eventDate |-> "soon"],
                 [eventAction |-> "registration", eventDate |-> ""] >>
EntityOrg  == [roles |-> {"registrar"},
               vcard |-> << [name |-> "fn",  value |-> "Reg Fn",  isArray |-> FALSE],
                            [name |-> "org", value |-> "Reg Org", isArray |-> TRUE] >>]
EntityFn   == [roles |-> {"registrar"},
               vcard |-> << [name |-> "org", value |-> "Reg Org", isArray |-> FALSE],
                            [name |-> "fn",  value |-> "Reg Fn",  isArray |-> FALSE] >>]
EntityTech == [roles |-> {"technical"}, vcard |-> << >>]

BodyFull    == [objectClassName |-> "domain", ldhName |-> "x",
                events |-> EventsFull, entities |-> <<EntityTech, EntityOrg>>]
BodyBare    == [objectClassName |-> "domain", ldhName |-> "x",
                events |-> << >>, entities |-> << >>]
BodyOdd     == [objectClassName |-> "domain", ldhName |-> "x",
                events |-> EventsOdd, entities |-> <<EntityFn>>]
BodyInvalid == [objectClassName |-> "domain", ldhName |-> "",
                events |-> EventsFull, entities |-> <<EntityOrg>>]
BodyClassless == [objectClassName |-> "", ldhName |-> "x",
                  events |-> EventsFull, entities |-> <<EntityOrg>>]
NoBody      == [objectClassName |-> "", ldhName |-> "",
                events |-> << >>, entities |-> << >>]

RdapBodies == {BodyFull, BodyBare, BodyOdd, BodyInvalid, BodyClassless}

\* messages of the errors a request can end in: the rejection of
\* createTimeoutPromise, the TypeError of a fetch that could not connect, the
\* TypeError of a body whose stream broke off, the SyntaxError of response.json()
TimeoutMessage ==
    <<"R", "D", "A", "P", " ", "q", "u", "e", "r", "y", " ", "t", "i", "m",
      "e", "o", "u", "t", " ", "a", "f", "t", "e", "r", " ", "1", "5", "0",
      "0", "0", "m", "s">>
FailedToFetchMessage ==
    <<"F", "a", "i", "l", "e", "d", " ", "t", "o", " ", "f", "e", "t", "c",
      "h">>
NetworkErrorMessage ==
    <<"n", "e", "t", "w", "o", "r", "k", " ", "e", "r", "r", "o", "r">>
SyntaxErrorMessage ==
    <<"U", "n", "e", "x", "p", "e", "c", "t", "e", "d", " ", "e", "n", "d",
      " ", "o", "f", " ", "J", "S", "O", "N", " ", "i", "n", "p", "u", "t">>
ErrorMessage(kind) ==
    CASE kind = "timeout"    -> TimeoutMessage
      [] kind = "connection" -> FailedToFetchMessage
      [] kind = "network"    -> NetworkErrorMessage
      [] kind = "unparsable" -> SyntaxErrorMessage
      [] OTHER -> << >>

\* what the network can answer to attempt retryCount of a fetchRdap: the
\* bootstrap registry cannot be fetched, it names no provider for the TLD, or
\* its services array holds an entry that is not a [tlds, urls] pair (first
\* attempt only); an HTTP status that is not ok, a request that ends in an
\* error, or a 200 with a JSON document
RdapReplies(retryCount) ==
    (IF retryCount = 0
     THEN {[kind |-> "bootstrap", status |-> 0, body |-> NoBody],
           [kind |-> "noProvider", status |-> 0, body |-> NoBody],
           [kind |-> "badRegistry", status |-> 0, body |-> NoBody]}
     ELSE {})
    \cup {[kind |-> "http", status |-> s, body |-> NoBody] : s \in {404, 503}}
    \cup {[kind |-> k, status |-> 0, body |-> NoBody] :
             k \in {"timeout", "connection", "network", "unparsable"}}
    \cup {[kind |-> "ok", status |-> 200, body |-> b] : b \in RdapBodies}

RdapFailure == [next |-> "failure", success |-> FALSE, data |-> NoBody, fromCache |-> FALSE]
RdapRetry   == [next |-> "retry",   success |-> FALSE, data |-> NoBody, fromCache |-> FALSE]
\* a success that its caller treats as a failure
RdapSuccessUnheeded(data, fromCache) ==
    [next |-> "failure", success |-> TRUE, data |-> data, fromCache |-> fromCache]
RdapSuccess(data, fromCache) ==
    [next |-> "success", success |-> TRUE, data |-> data, fromCache |-> fromCache]
\* the promise of fetchRdap is rejected
RdapThrows  == [next |-> "throws",  success |-> FALSE, data |-> NoBody, fromCache |-> FALSE]

\* performRdapQuery that takes every 200 for an RDAP document
performRdapQueryUnvalidated(reply, retryCount) ==
    CASE reply.kind = "http" ->
            IF reply.status >= 500 /\ retryCount < MAX_RETRIES
            THEN RdapRetry ELSE RdapFailure
      [] reply.kind = "ok" -> RdapSuccess(reply.body, FALSE)
      [] OTHER ->
            LET errorMessage == ErrorMessage(reply.kind) IN
            IF /\ \/ includes(errorMessage, <<"t", "i", "m", "e", "o", "u", "t">>)
                  \/ includes(errorMessage, <<"n", "e", "t", "w", "o", "r", "k">>)
               /\ retryCount < MAX_RETRIES
            THEN RdapRetry ELSE RdapFailure

\* performRdapQuery that retries after every status that is not ok
performRdapQueryRetryingAll(reply, retryCount) ==
    CASE reply.kind = "http" ->
            IF retryCount < MAX_RETRIES THEN RdapRetry ELSE RdapFailure
      [] reply.kind = "ok" ->
            IF reply.body.objectClassName = "" \/ reply.body.ldhName = ""
            THEN RdapFailure
            ELSE RdapSuccess(reply.body, FALSE)
      [] OTHER ->
            LET errorMessage == ErrorMessage(reply.kind) IN
            IF /\ \/ includes(errorMessage, <<"t", "i", "m", "e", "o", "u", "t">>)
                  \/ includes(errorMessage, <<"n", "e", "t", "w", "o", "r", "k">>)
               /\ retryCount < MAX_RETRIES
            THEN RdapRetry ELSE RdapFailure

\* performRdapQuery that retries once more
performRdapQueryOnceMore(reply, retryCount) ==
    CASE reply.kind = "http" ->
            IF reply.status >= 500 /\ retryCount <= MAX_RETRIES
            THEN RdapRetry ELSE RdapFailure
      [] reply.kind = "ok" ->
            IF reply.body.objectClassName = "" \/ reply.body.ldhName = ""
            THEN RdapFailure
            ELSE RdapSuccess(reply.body, FALSE)
      [] OTHER ->
            LET errorMessage == ErrorMessage(reply.kind) IN
            IF /\ \/ includes(errorMessage, <<"t", "i", "m", "e", "o", "u", "t">>)
                  \/ includes(errorMessage, <<"n", "e", "t", "w", "o", "r", "k">>)
               /\ retryCount <= MAX_RETRIES
            THEN RdapRetry ELSE RdapFailure

\* one attempt of performRdapQuery: retry, or settle
performRdapQuery(reply, retryCount) ==
    CASE reply.kind = "http" ->
            IF reply.status >= 500 /\ retryCount < MAX_RETRIES
            THEN RdapRetry ELSE RdapFailure
      [] reply.kind = "ok" ->
            IF reply.body.objectClassName = "" \/ reply.body.ldhName = ""
            THEN RdapFailure
            ELSE RdapSuccess(reply.body, FALSE)
      [] OTHER ->
            LET errorMessage == ErrorMessage(reply.kind) IN
            IF /\ \/ includes(errorMessage, <<"t", "i", "m", "e", "o", "u", "t">>)
                  \/ includes(errorMessage, <<"n", "e", "t", "w", "o", "r", "k">>)
               /\ retryCount < MAX_RETRIES
            THEN RdapRetry ELSE RdapFailure

\* rdapService.createResponseCacheKey
createResponseCacheKey(domain) == toLowerCase(domain)

\* rdapService.getCachedResponse: the data it returns (NoBody for undefined)
\* and the cache it leaves, an expired entry deleted
getCachedRdapResponse(cache, domain) ==
    LET key == createResponseCacheKey(domain) IN
    IF MapHas(cache, key) /\ isCacheEntryValid(MapGet(cache, key))
    THEN [data |-> MapGet(cache, key).data, cache |-> cache]
    ELSE [data |-> NoBody,
          cache |-> IF MapHas(cache, key) THEN MapDelete(cache, key) ELSE cache]

\* rdapService.cacheResponse
cacheRdapResponse(cache, domain, response) ==
    LET m == MapSet(cache, createResponseCacheKey(domain),
                    [data |-> response, timestamp |-> dateNow,
                     ttl |-> RESPONSE_CACHE_TTL])
    IN IF Len(m) > RESPONSE_CACHE_MAX THEN Tail(m) ELSE m

\* the part of fetchRdap that runs before its first await: how the call goes
\* on, and the cache it leaves
FetchRdapCall(domain, cache) ==
    IF ~isValidDomainForRdap(domain)
    THEN [kind |-> "invalid", body |-> NoBody, cache |-> cache, read |-> FALSE]
    ELSE LET cached == getCachedRdapResponse(cache, domain) IN
         IF cached.data # NoBody
         THEN [kind |-> "cached", body |-> cached.data, cache |-> cached.cache,
               read |-> TRUE]
         ELSE IF extractTld(domain) = << >>
         THEN [kind |-> "invalid", body |-> NoBody, cache |-> cached.cache,
               read |-> TRUE]
         ELSE [kind |-> "network", body |-> NoBody, cache |-> cached.cache,
               read |-> TRUE]

\* fetchRdap after its first await, given what the network answers.  On a
\* services array with an entry it cannot destructure, findServiceForTld throws
\* a TypeError, and fetchRdap has no try around that call.
FetchRdapAttempt(reply, retryCount) ==
    IF reply.kind \in {"bootstrap", "noProvider"} THEN RdapFailure
    ELSE IF reply.kind = "badRegistry" THEN RdapThrows
    ELSE performRdapQuery(reply, retryCount)

\* how a pending fetchRdap can go on from here
FetchRdapOutcomes(pending, retryCount) ==
    CASE pending.kind = "invalid" -> {RdapFailure}
      [] pending.kind = "cached"  -> {RdapSuccess(pending.body, TRUE)}
      [] OTHER -> {FetchRdapAttempt(reply, retryCount) :
                      reply \in RdapReplies(retryCount)}

\* ---------------------------------------------------------------------------
\* DNS client (dnsService)
\* ---------------------------------------------------------------------------
DnsRecordType == [A |-> 1, NS |-> 2, CNAME |-> 5, SOA |-> 6, MX |-> 15,
                  TXT |-> 16, AAAA |-> 28]
DnsResponseStatus == [NOERROR |-> 0, SERVFAIL |-> 2, NXDOMAIN |-> 3]
WEB_RECORD_TYPES == {DnsRecordType.A, DnsRecordType.AAAA, DnsRecordType.CNAME,
                     DnsRecordType.MX}
DNS_CACHE_MAX == 1000
CACHE_TTL == 300000             \* ms

hasWebRecordsInAnswerNever(dnsResponse) == FALSE

hasWebRecordsInAnswer(dnsResponse) ==
    \E i \in 1..Len(dnsResponse.Answer) :
        dnsResponse.Answer[i].type \in WEB_RECORD_TYPES

hasOwnSOARecord(dnsResponse, domain) ==
    \E i \in 1..Len(dnsResponse.Authority) :
        /\ dnsResponse.Authority[i].type = DnsRecordType.SOA
        /\ toLowerCase(dnsResponse.Authority[i].name) = toLowerCase(domain)

hasParentSOARecord(dnsResponse, domain) ==
    \E i \in 1..Len(dnsResponse.Authority) :
        /\ dnsResponse.Authority[i].type = DnsRecordType.SOA
        /\ endsWith(toLowerCase(domain), toLowerCase(dnsResponse.Authority[i].name))
        /\ toLowerCase(dnsResponse.Authority[i].name) # toLowerCase(domain)

NoDnsResponse == [Status |-> DnsResponseStatus.NOERROR, Answer |-> << >>,
                  Authority |-> << >>]
DnsFailure == [success |-> FALSE, data |-> NoDnsResponse, fromCache |-> FALSE]
DnsSuccess(data, fromCache) == [success |-> TRUE, data |-> data, fromCache |-> fromCache]

\* performSOACheck that takes a failed query for an empty answer
performSOACheckHopeful(soaResult) ==
    IF /\ soaResult.success
       /\ soaResult.data.Status = DnsResponseStatus.NOERROR
       /\ Len(soaResult.data.Answer) > 0
    THEN "NOTAVAILABLE"
    ELSE "AVAILABLE"

\* performSOACheck, given the result of its SOA query
performSOACheck(soaResult) ==
    IF ~soaResult.success THEN "UNKNOWN"
    ELSE IF /\ soaResult.data.Status = DnsResponseStatus.NOERROR
            /\ Len(soaResult.data.Answer) > 0
    THEN "NOTAVAILABLE"
    ELSE "AVAILABLE"

\* the branch of getDomainAvailabilityStatus that awaits performSOACheck
NeedsSOACheck(domain, dnsResult) ==
    /\ dnsResult.success
    /\ dnsResult.data.Status = DnsResponseStatus.NOERROR
    /\ ~(Len(dnsResult.data.Answer) > 0 /\ hasWebRecordsInAnswer(dnsResult.data))
    /\ Len(dnsResult.data.Authority) > 0
    /\ ~hasOwnSOARecord(dnsResult.data, domain)
    /\ hasParentSOARecord(dnsResult.data, domain)

getDomainAvailabilityStatusHopeful(domain, dnsResult, soaResult) == "AVAILABLE"

\* getDomainAvailabilityStatus that reads the sections before the status
getDomainAvailabilityStatusSectionsFirst(domain, dnsResult, soaResult) ==
    IF ~dnsResult.success THEN "UNKNOWN"
    ELSE LET dnsResponse == dnsResult.data IN
         IF Len(dnsResponse.Answer) > 0 /\ hasWebRecordsInAnswer(dnsResponse)
              THEN "NOTAVAILABLE"
         ELSE IF Len(dnsResponse.Authority) > 0 /\ hasOwnSOARecord(dnsResponse, domain)
              THEN "NOTAVAILABLE"
         ELSE IF dnsResponse.Status = DnsResponseStatus.NXDOMAIN THEN "AVAILABLE"
         ELSE IF dnsResponse.Status # DnsResponseStatus.NOERROR THEN "UNKNOWN"
         ELSE IF Len(dnsResponse.Authority) > 0 /\ hasParentSOARecord(dnsResponse, domain)
              THEN performSOACheck(soaResult)
         ELSE "UNKNOWN"

\* getDomainAvailabilityStatus, given the result of its A query and, where
\* the SOA check runs, the result of the SOA query
getDomainAvailabilityStatus(domain, dnsResult, soaResult) ==
    IF ~dnsResult.success THEN "UNKNOWN"
    ELSE LET dnsResponse == dnsResult.data IN
         IF dnsResponse.Status = DnsResponseStatus.NXDOMAIN THEN "AVAILABLE"
         ELSE IF dnsResponse.Status # DnsResponseStatus.NOERROR THEN "UNKNOWN"
         ELSE IF Len(dnsResponse.Answer) > 0 /\ hasWebRecordsInAnswer(dnsResponse)
              THEN "NOTAVAILABLE"
         ELSE IF Len(dnsResponse.Authority) > 0 /\ hasOwnSOARecord(dnsResponse, domain)
              THEN "NOTAVAILABLE"
         ELSE IF Len(dnsResponse.Authority) > 0 /\ hasParentSOARecord(dnsResponse, domain)
              THEN performSOACheck(soaResult)
         ELSE "UNKNOWN"

\* dnsService.createCacheKey and cacheResponse
createCacheKey(domain, type) == <<toLowerCase(domain), type>>
\* cacheResponse without the size test
cacheDnsResponseUnbounded(cache, domain, type, response) ==
    MapSet(cache, createCacheKey(domain, type),
           [response |-> response, timestamp |-> dateNow, ttl |-> CACHE_TTL])

cacheDnsResponse(cache, domain, type, response) ==
    LET m == MapSet(cache, createCacheKey(domain, type),
                    [response |-> response, timestamp |-> dateNow, ttl |-> CACHE_TTL])
    IN IF Len(m) > DNS_CACHE_MAX THEN Tail(m) ELSE m

\* dnsService.getCachedResponse: the response it returns (NoDnsResponse for
\* undefined) and the cache it leaves, an expired entry deleted
getCachedDnsResponse(cache, domain, type) ==
    LET key == createCacheKey(domain, type) IN
    IF MapHas(cache, key) /\ isCacheEntryValid(MapGet(cache, key))
    THEN [response |-> MapGet(cache, key).response, cache |-> cache]
    ELSE [response |-> NoDnsResponse,
          cache |-> IF MapHas(cache, key) THEN MapDelete(cache, key) ELSE cache]

\* the part of fetchDns that runs before its first await: how the call goes
\* on, and the cache it leaves
FetchDnsCall(domain, type, cache) ==
    IF ~isValidDomain(domain)
    THEN [kind |-> "invalid", response |-> NoDnsResponse, cache |-> cache,
          read |-> FALSE]
    ELSE LET cached == getCachedDnsResponse(cache, domain, type) IN
         IF cached.response # NoDnsResponse
         THEN [kind |-> "cached", response |-> cached.response, cache |-> cached.cache,
               read |-> TRUE]
         ELSE [kind |-> "network", response |-> NoDnsResponse, cache |-> cached.cache,
               read |-> TRUE]

\* the zone above a name: what follows its first dot, the root otherwise
ParentZone(domain) ==
    IF includes(domain, <<".">>)
    THEN LET i == CHOOSE k \in 1..Len(domain) :
                      domain[k] = "." /\ \A j \in 1..(k - 1) : domain[j] # "."
         IN SubSeq(domain, i + 1, Len(domain))
    ELSE <<".">>

Rec(name, type) == [name |-> name, type |-> type]

\* answers of the resolver to an A query for a name
DnsAResponses(domain) ==
    LET own    == toLowerCase(domain)
        parent == ParentZone(own)
    IN { [Status |-> DnsResponseStatus.NXDOMAIN, Answer |-> << >>,
          Authority |-> <<Rec(parent, DnsRecordType.SOA)>>],
         [Status |-> DnsResponseStatus.SERVFAIL, Answer |-> << >>, Authority |-> << >>],
         [Status |-> DnsResponseStatus.NOERROR,
          Answer |-> <<Rec(own, DnsRecordType.A)>>, Authority |-> << >>],
         [Status |-> DnsResponseStatus.NOERROR,
          Answer |-> <<Rec(own, DnsRecordType.TXT)>>, Authority |-> << >>],
         [Status |-> DnsResponseStatus.NOERROR, Answer |-> << >>,
          Authority |-> <<Rec(own, DnsRecordType.SOA)>>],
         [Status |-> DnsResponseStatus.NOERROR, Answer |-> << >>,
          Authority |-> <<Rec(parent, DnsRecordType.SOA)>>],
         [Status |-> DnsResponseStatus.NOERROR, Answer |-> << >>,
          Authority |-> <<Rec(parent, DnsRecordType.NS)>>] }

\* answers of the resolver to an SOA query for a name
DnsSOAResponses(domain) ==
    LET own    == toLowerCase(domain)
        parent == ParentZone(own)
    IN { [Status |-> DnsResponseStatus.NOERROR,
          Answer |-> <<Rec(own, DnsRecordType.SOA)>>, Authority |-> << >>],
         [Status |-> DnsResponseStatus.NOERROR, Answer |-> << >>,
          Authority |-> <<Rec(parent, DnsRecordType.SOA)>>],
         [Status |-> DnsResponseStatus.NXDOMAIN, Answer |-> << >>,
          Authority |-> <<Rec(parent, DnsRecordType.SOA)>>] }

\* NXDOMAIN answers to an A query for a name, with every content of the
\* Answer and Authority sections
DnsNxdomainResponses(domain) ==
    LET own    == toLowerCase(domain)
        parent == ParentZone(own)
    IN { [Status |-> DnsResponseStatus.NXDOMAIN, Answer |-> an, Authority |-> au] :
           an \in {<< >>, <<Rec(own, DnsRecordType.A)>>, <<Rec(own, DnsRecordType.TXT)>>},
           au \in {<< >>, <<Rec(own, DnsRecordType.SOA)>>,
                   <<Rec(parent, DnsRecordType.SOA)>>,
                   <<Rec(parent, DnsRecordType.NS)>>} }

DnsResponses(domain, type) ==
    IF type = DnsRecordType.A THEN DnsAResponses(domain) ELSE DnsSOAResponses(domain)

\* how a pending fetchDns can settle: a response that is not ok or an
\* exception (timeout, network) fail it, a 200 is cached and returned
FetchDnsOutcomes(pending, domain, type) ==
    CASE pending.kind = "invalid" -> {DnsFailure}
      [] pending.kind = "cached"  -> {DnsSuccess(pending.response, TRUE)}
      [] OTHER -> {DnsFailure}
                  \cup {DnsSuccess(r, FALSE) : r \in DnsResponses(domain, type)}

\* ---------------------------------------------------------------------------
\* Resolution engine (DomainItem.vue)
\* ---------------------------------------------------------------------------
RETRY_TIMEOUT == 3000           \* ms, the timer the reconciliation retry races

DomNone == << >>                    \* ""
DomA    == <<"a", ".", "c">>        \* "a.c"
DomB    == <<"B", ".", "c">>        \* "B.c"
DomHost == <<"h">>                  \* "h": no dot
EngineDomains == {DomNone, DomA, DomB, DomHost}

LookupIds == 1..MaxLookups

NoReply == [kind |-> "none", status |-> 0, body |-> NoBody]
NoRdapResult == [success |-> FALSE, data |-> NoBody, fromCache |-> FALSE]
NoPending    == [kind |-> "none", body |-> NoBody, response |-> NoDnsResponse]
RdapPending(p) == [kind |-> p.kind, body |-> p.body, response |-> NoDnsResponse]
DnsPending(p)  == [kind |-> p.kind, body |-> NoBody, response |-> p.response]

\* one run of checkDomainAvailabilityWithRdap: where it stands and its locals
NoLookup ==
    [pc |-> "idle",
     query |-> << >>,               \* argument of the request it awaits
     pending |-> NoPending,         \* that request
     retryCount |-> 0,              \* performRdapQuery's retryCount
     waited |-> 0,                  \* ms of backoff spent in that fetchRdap
     reply |-> NoReply,             \* the network's last answer to it, where
                                    \* the answers are followed
     rdapResult |-> NoRdapResult,
     checkResult |-> NoResult,
     dnsResult |-> DnsFailure,      \* result of the A query
     soaResult |-> DnsFailure,      \* result of performSOACheck's SOA query
     dnsAvailability |-> "none",
     retryResult |-> NoRdapResult,
     retryCheckResult |-> NoResult,
     raceWinner |-> "none"]

Result(o) == [success |-> o.success, data |-> o.data, fromCache |-> o.fromCache]

\* checkDomainAvailabilityWithRdap up to its first await
StartLookup ==
    IF domainName = << >>
    THEN UNCHANGED <<lookups, lookupsStarted, isLoadingAvailability, isLoadingRdap,
                     responseCache>>
    ELSE /\ lookupsStarted < MaxLookups
         /\ lookupsStarted' = lookupsStarted + 1
         /\ isLoadingAvailability' = TRUE
         /\ isLoadingRdap' = TRUE
         /\ lookups' = [lookups EXCEPT ![lookupsStarted + 1] =
                [NoLookup EXCEPT
                    !.pc = "rdap",
                    !.query = domainName,
                    !.pending = RdapPending(FetchRdapCall(domainName, responseCache))]]
         /\ responseCache' = FetchRdapCall(domainName, responseCache).cache

\* onMounted: loadDomainData
Mount ==
    /\ mounted = "no"
    /\ mounted' = "yes"
    /\ StartLookup
    /\ UNCHANGED <<domainName, debounceTimer, changes, availabilityStatus, domainInfo,
                   dnsCache>>

\* handleDomainChange without the timer: every change of the prop starts a pass
DomainChangeUndebounced(d) ==
    /\ mounted = "yes"
    /\ d # domainName
    /\ changes < MaxChanges + MaxBurst - 1
    /\ changes' = changes + 1
    /\ domainName' = d
    /\ StartLookup
    /\ UNCHANGED <<mounted, debounceTimer, availabilityStatus, domainInfo, dnsCache>>

\* the parent changes the domainName prop; the watcher runs handleDomainChange
DomainChange(d) ==
    /\ mounted = "yes"
    /\ d # domainName
    /\ \/ changes < MaxChanges
       \/ debounceTimer /\ changes < MaxChanges + MaxBurst - 1
    /\ changes' = changes + 1
    /\ domainName' = d
    /\ debounceTimer' = TRUE
    /\ UNCHANGED <<mounted, availabilityStatus, domainInfo, isLoadingAvailability,
                   isLoadingRdap, lookups, lookupsStarted, responseCache, dnsCache>>

\* the debounce timer fires: loadDomainData
DebounceFires ==
    /\ debounceTimer
    /\ debounceTimer' = FALSE
    /\ StartLookup
    /\ UNCHANGED <<domainName, mounted, changes, availabilityStatus, domainInfo,
                   dnsCache>>

\* onUnmounted: the pending debounce timer is cleared; requests in flight go on
Unmount ==
    /\ mounted = "yes"
    /\ mounted' = "gone"
    /\ debounceTimer' = FALSE
    /\ UNCHANGED <<domainName, changes, availabilityStatus, domainInfo,
                   isLoadingAvailability, isLoadingRdap, lookups, lookupsStarted,
                   responseCache, dnsCache>>

\* the response cache after a fetchRdap outcome
CacheAfterRdap(o, query) ==
    IF o.next = "success" /\ ~o.fromCache
    THEN cacheRdapResponse(responseCache, query, o.data)
    ELSE responseCache

\* a retried attempt: performRdapQuery waits 1000 * (retryCount + 1) ms and
\* calls itself
RetriedAttempt(lk) ==
    [lk EXCEPT !.retryCount = @ + 1,
               !.waited = @ + RETRY_BACKOFF * (lk.retryCount + 1)]

\* the engine once the first fetchRdap of lookup l has gone on with outcome
\* o: lk is the lookup with the locals of that call filled in
AfterRdap(l, lk, o) ==
        /\ responseCache' = CacheAfterRdap(o, lookups[l].query)
        /\ CASE o.next = "retry" ->
                  /\ lookups' = [lookups EXCEPT ![l] = RetriedAttempt(lk)]
                  /\ UNCHANGED <<availabilityStatus, domainInfo, isLoadingAvailability,
                                 isLoadingRdap, dnsCache>>
             [] o.next = "success" ->
                  LET checkResult == createDomainCheckFromRdap(o.data) IN
                  /\ availabilityStatus' = checkResult.availability
                  /\ domainInfo' = DomainWith(NewDomain(domainName),
                                              InfoUpdates(checkResult))
                  /\ isLoadingRdap' = FALSE
                  /\ isLoadingAvailability' = FALSE
                  /\ lookups' = [lookups EXCEPT ![l] =
                        [lk EXCEPT !.pc = "done", !.pending = NoPending,
                                  !.rdapResult = Result(o),
                                  !.checkResult = checkResult]]
                  /\ UNCHANGED dnsCache
             [] o.next = "throws" ->
                  /\ availabilityStatus' = "UNKNOWN"
                  /\ isLoadingRdap' = FALSE
                  /\ isLoadingAvailability' = FALSE
                  /\ lookups' = [lookups EXCEPT ![l] =
                        [lk EXCEPT !.pc = "done", !.pending = NoPending]]
                  /\ UNCHANGED <<domainInfo, dnsCache>>
             [] OTHER ->
                  /\ isLoadingRdap' = FALSE
                  /\ lookups' = [lookups EXCEPT ![l] =
                        [lk EXCEPT !.pc = "dns", !.rdapResult = Result(o),
                                  !.query = domainName,
                                  !.pending = DnsPending(FetchDnsCall(domainName,
                                                  DnsRecordType.A, dnsCache))]]
                  /\ dnsCache' = FetchDnsCall(domainName, DnsRecordType.A, dnsCache).cache
                  /\ UNCHANGED <<availabilityStatus, domainInfo, isLoadingAvailability>>
        /\ UNCHANGED <<domainName, mounted, debounceTimer, changes, lookupsStarted>>

\* the first fetchRdap of a lookup moves on
RdapSettles(l) ==
    /\ lookups[l].pc = "rdap"
    /\ \E o \in FetchRdapOutcomes(lookups[l].pending, lookups[l].retryCount) :
          AfterRdap(l, lookups[l], o)

\* the first fetchRdap of a lookup returns before its first await
RdapReturns(l) ==
    /\ lookups[l].pending.kind # "network"
    /\ RdapSettles(l)

\* one attempt of the first fetchRdap of a lookup is answered by the network
RdapAnswered(l) ==
    /\ lookups[l].pc = "rdap"
    /\ lookups[l].pending.kind = "network"
    /\ \E reply \in RdapReplies(lookups[l].retryCount) :
          AfterRdap(l, [lookups[l] EXCEPT !.reply = reply],
                    FetchRdapAttempt(reply, lookups[l].retryCount))

\* the engine once getDomainAvailabilityStatus has returned dnsAvailability:
\* lk is the lookup with its DNS locals filled in
AfterDns(l, lk, dnsAvailability) ==
    /\ availabilityStatus' = dnsAvailability
    /\ IF dnsAvailability = "NOTAVAILABLE" /\ ~lk.rdapResult.success
       THEN /\ isLoadingRdap' = TRUE
            /\ lookups' = [lookups EXCEPT ![l] =
                  [lk EXCEPT !.pc = "race", !.dnsAvailability = dnsAvailability,
                             !.query = domainName, !.retryCount = 0, !.waited = 0,
                             !.pending = RdapPending(FetchRdapCall(domainName,
                                                        responseCache))]]
            /\ responseCache' = FetchRdapCall(domainName, responseCache).cache
            /\ UNCHANGED isLoadingAvailability
       ELSE /\ isLoadingAvailability' = FALSE
            /\ lookups' = [lookups EXCEPT ![l] =
                  [lk EXCEPT !.pc = "done", !.dnsAvailability = dnsAvailability,
                             !.pending = NoPending]]
            /\ UNCHANGED <<isLoadingRdap, responseCache>>

\* the A query of getDomainAvailabilityStatus settles
DnsSettles(l) ==
    /\ lookups[l].pc = "dns"
    /\ \E o \in FetchDnsOutcomes(lookups[l].pending, lookups[l].query, DnsRecordType.A) :
        LET cache == IF o.success /\ ~o.fromCache
                     THEN cacheDnsResponse(dnsCache, lookups[l].query,
                                           DnsRecordType.A, o.data)
                     ELSE dnsCache
            lk == [lookups[l] EXCEPT !.dnsResult = o]
        IN IF NeedsSOACheck(lookups[l].query, o)
           THEN /\ lookups' = [lookups EXCEPT ![l] =
                      [lk EXCEPT !.pc = "soa",
                                 !.pending = DnsPending(FetchDnsCall(lookups[l].query,
                                                 DnsRecordType.SOA, cache))]]
                /\ dnsCache' = FetchDnsCall(lookups[l].query, DnsRecordType.SOA,
                                            cache).cache
                /\ UNCHANGED <<availabilityStatus, isLoadingAvailability,
                               isLoadingRdap, responseCache>>
           ELSE /\ dnsCache' = cache
                /\ AfterDns(l, lk, getDomainAvailabilityStatus(lookups[l].query, o,
                                                               DnsFailure))
    /\ UNCHANGED <<domainName, mounted, debounceTimer, changes, lookupsStarted,
                   domainInfo>>

\* the SOA query of performSOACheck settles
SoaSettles(l) ==
    /\ lookups[l].pc = "soa"
    /\ \E o \in FetchDnsOutcomes(lookups[l].pending, lookups[l].query, DnsRecordType.SOA) :
        /\ dnsCache' = IF o.success /\ ~o.fromCache
                       THEN cacheDnsResponse(dnsCache, lookups[l].query,
                                             DnsRecordType.SOA, o.data)
                       ELSE dnsCache
        /\ AfterDns(l, [lookups[l] EXCEPT !.soaResult = o],
                    getDomainAvailabilityStatus(lookups[l].query,
                                                lookups[l].dnsResult, o))
    /\ UNCHANGED <<domainName, mounted, debounceTimer, changes, lookupsStarted,
                   domainInfo>>

\* the reconciliation retry moves on before the 3 s timer has fired.  The
\* attempt whose reply this is was sent after `waited` ms of backoff.
RetrySettles(l) ==
    /\ lookups[l].pc = "race"
    /\ lookups[l].waited < RETRY_TIMEOUT
    /\ \E o \in FetchRdapOutcomes(lookups[l].pending, lookups[l].retryCount) :
        /\ responseCache' = CacheAfterRdap(o, lookups[l].query)
        /\ CASE o.next = "retry" ->
                  /\ lookups' = [lookups EXCEPT ![l] = RetriedAttempt(@)]
                  /\ UNCHANGED <<domainInfo, isLoadingAvailability, isLoadingRdap,
                                 availabilityStatus>>
             [] o.next = "success" ->
                  LET retryCheckResult == createDomainCheckFromRdap(o.data) IN
                  /\ domainInfo' = DomainWith(NewDomain(domainName),
                                              InfoUpdates(retryCheckResult))
                  /\ isLoadingRdap' = FALSE
                  /\ isLoadingAvailability' = FALSE
                  /\ lookups' = [lookups EXCEPT ![l] =
                        [@ EXCEPT !.pc = "done", !.pending = NoPending,
                                  !.retryResult = Result(o),
                                  !.retryCheckResult = retryCheckResult,
                                  !.raceWinner = "retry"]]
                  /\ UNCHANGED availabilityStatus
             [] o.next = "throws" ->
                  /\ availabilityStatus' = "UNKNOWN"
                  /\ isLoadingRdap' = FALSE
                  /\ isLoadingAvailability' = FALSE
                  /\ lookups' = [lookups EXCEPT ![l] =
                        [@ EXCEPT !.pc = "done", !.pending = NoPending,
                                  !.raceWinner = "retry"]]
                  /\ UNCHANGED domainInfo
             [] OTHER ->
                  /\ isLoadingRdap' = FALSE
                  /\ isLoadingAvailability' = FALSE
                  /\ lookups' = [lookups EXCEPT ![l] =
                        [@ EXCEPT !.pc = "done", !.pending = NoPending,
                                  !.retryResult = Result(o),
                                  !.raceWinner = "retry"]]
                  /\ UNCHANGED <<domainInfo, availabilityStatus>>
    /\ UNCHANGED <<domainName, mounted, debounceTimer, changes, lookupsStarted,
                   dnsCache>>

\* the 3 s timer fires first: the race resolves to {success: false}.  A
\* fetchRdap that returns before its first await (invalid name, cache hit)
\* settles ahead of any timer.
RetryTimeout(l) ==
    /\ lookups[l].pc = "race"
    /\ lookups[l].pending.kind = "network"
    /\ isLoadingRdap' = FALSE
    /\ isLoadingAvailability' = FALSE
    /\ lookups' = [lookups EXCEPT ![l] =
          [@ EXCEPT !.pc = "late", !.retryResult = NoRdapResult,
                    !.raceWinner = "timeout"]]
    /\ UNCHANGED <<domainName, mounted, debounceTimer, changes, lookupsStarted,
                   availabilityStatus, domainInfo, responseCache, dnsCache>>

\* the retry's fetchRdap moves on after the race is over: nobody awaits it
LateRetrySettles(l) ==
    /\ lookups[l].pc = "late"
    /\ \E o \in FetchRdapOutcomes(lookups[l].pending, lookups[l].retryCount) :
        /\ responseCache' = CacheAfterRdap(o, lookups[l].query)
        /\ lookups' = [lookups EXCEPT ![l] =
              IF o.next = "retry" THEN RetriedAttempt(@)
              ELSE [@ EXCEPT !.pc = "done", !.pending = NoPending]]
    /\ UNCHANGED <<domainName, mounted, debounceTimer, changes, lookupsStarted,
                   availabilityStatus, domainInfo, isLoadingAvailability,
                   isLoadingRdap, dnsCache>>

\* ---------------------------------------------------------------------------
\* Callers of the two clients: calls of fetchDns and fetchRdap, overlapping or
\* one after the other, while the clock advances
\* ---------------------------------------------------------------------------
FetchIds == 1..MaxFetches

ClientDomains == {DomA, DomHost}

\* names outside the hostname grammar
DomBadChar    == <<"a", "_", ".", "c">>             \* "a_.c"
DomHyphenHead == <<"-", "a", ".", "c">>             \* "-a.c"
DomHyphenTail == <<"a", "-", ".", "c">>             \* "a-.c"
DomEmptyLabel == <<"a", ".", ".", "c">>             \* "a..c"
DomLongLabel  == [i \in 1..(MAX_LABEL_LENGTH + 1) |-> "a"] \o <<".", "c">>
DomTooLong    ==                                    \* 63.63.63.62: 254 characters
    [i \in 1..(MAX_DOMAIN_LENGTH + 1) |->
        IF i % (MAX_LABEL_LENGTH + 1) = 0 THEN "." ELSE "a"]
InvalidDomains == {DomBadChar, DomHyphenHead, DomHyphenTail, DomEmptyLabel,
                   DomLongLabel, DomTooLong}
CalledDomains == ClientDomains \cup InvalidDomains
ClientTypes == {DnsRecordType.A, DnsRecordType.SOA}

\* what a call resolved to: RdapResult / DnsResult
\* (rejected: the promise was rejected and there is no result object)
NoFetchResult == [success |-> FALSE, body |-> NoBody, response |-> NoDnsResponse,
                  fromCache |-> FALSE, error |-> FALSE, rejected |-> FALSE]
RdapFetchResult(o) == [success |-> o.success, body |-> o.data,
                       response |-> NoDnsResponse, fromCache |-> o.fromCache,
                       error |-> o.next = "failure", rejected |-> o.next = "throws"]
DnsFetchResult(o) == [success |-> o.success, body |-> NoBody, response |-> o.data,
                      fromCache |-> o.fromCache, error |-> ~o.success,
                      rejected |-> FALSE]

\* one call of fetchRdap or fetchDns: its arguments, where it stands, what it
\* has done so far
NoFetch ==
    [pc |-> "idle",                 \* "idle", "pending", "done"
     svc |-> "none",                \* "rdap", "dns"
     domain |-> << >>,
     type |-> 0,
     pending |-> NoPending,
     cacheRead |-> FALSE,           \* getCachedResponse has been called
     retryCount |-> 0,              \* performRdapQuery's retryCount
     waits |-> << >>,               \* the delays slept before the retries, ms
     requests |-> 0,                \* requests sent to the RDAP server / resolver
     replies |-> << >>,             \* what the network answered, in order
     calledAt |-> 0,
     after |-> {},                  \* the calls that had resolved by then
     settledAt |-> 0,
     result |-> NoFetchResult]

Resolved == {f \in FetchIds : fetches[f].pc = "done"}

\* fetchRdap(d) up to its first await
CallFetchRdap(d) ==
    /\ fetchesStarted < MaxFetches
    /\ fetchesStarted' = fetchesStarted + 1
    /\ LET p == FetchRdapCall(d, responseCache) IN
       /\ responseCache' = p.cache
       /\ fetches' = [fetches EXCEPT ![fetchesStarted + 1] =
             [NoFetch EXCEPT !.pc = "pending", !.svc = "rdap", !.domain = d,
                             !.pending = RdapPending(p), !.cacheRead = p.read,
                             !.calledAt = dateNow, !.after = Resolved]]
    /\ UNCHANGED <<dateNow, ticks, dnsCache>>

\* fetchDns(d, type) up to its first await
CallFetchDns(d, type) ==
    /\ fetchesStarted < MaxFetches
    /\ fetchesStarted' = fetchesStarted + 1
    /\ LET p == FetchDnsCall(d, type, dnsCache) IN
       /\ dnsCache' = p.cache
       /\ fetches' = [fetches EXCEPT ![fetchesStarted + 1] =
             [NoFetch EXCEPT !.pc = "pending", !.svc = "dns", !.domain = d,
                             !.type = type,
                             !.pending = DnsPending(p), !.cacheRead = p.read,
                             !.calledAt = dateNow, !.after = Resolved]]
    /\ UNCHANGED <<dateNow, ticks, responseCache>>

\* the name of a reply in a call's record
ReplyName(reply) == IF reply.kind = "http" THEN IF reply.status >= 500 THEN "5xx" ELSE "4xx"
                    ELSE reply.kind

\* a fetchRdap that returned before its first await resolves
FetchRdapReturns(f) ==
    /\ fetches[f].pc = "pending"
    /\ fetches[f].svc = "rdap"
    /\ fetches[f].pending.kind # "network"
    /\ \E o \in FetchRdapOutcomes(fetches[f].pending, fetches[f].retryCount) :
          fetches' = [fetches EXCEPT ![f] =
              [@ EXCEPT !.pc = "done", !.pending = NoPending, !.settledAt = dateNow,
                        !.result = RdapFetchResult(o)]]
    /\ UNCHANGED <<dateNow, ticks, fetchesStarted, responseCache, dnsCache>>

\* one attempt of a fetchRdap that went to the network is answered: the call
\* sleeps and tries again, or it resolves
FetchRdapSettles(f) ==
    /\ fetches[f].pc = "pending"
    /\ fetches[f].svc = "rdap"
    /\ fetches[f].pending.kind = "network"
    /\ \E reply \in RdapReplies(fetches[f].retryCount) :
        LET o == FetchRdapAttempt(reply, fetches[f].retryCount)
            sent == IF reply.kind \in {"bootstrap", "noProvider"} THEN 0 ELSE 1
        IN /\ responseCache' = CacheAfterRdap(o, fetches[f].domain)
           /\ fetches' = [fetches EXCEPT ![f] =
                 IF o.next = "retry"
                 THEN [@ EXCEPT !.retryCount = @ + 1,
                                !.waits = Append(@, RETRY_BACKOFF
                                                     * (fetches[f].retryCount + 1)),
                                !.requests = @ + sent,
                                !.replies = Append(@, ReplyName(reply))]
                 ELSE [@ EXCEPT !.pc = "done", !.pending = NoPending,
                                !.settledAt = dateNow,
                                !.requests = @ + sent,
                                !.replies = Append(@, ReplyName(reply)),
                                !.result = RdapFetchResult(o)]]
    /\ UNCHANGED <<dateNow, ticks, fetchesStarted, dnsCache>>

\* a fetchDns resolves
FetchDnsSettles(f) ==
    /\ fetches[f].pc = "pending"
    /\ fetches[f].svc = "dns"
    /\ \E o \in FetchDnsOutcomes(fetches[f].pending, fetches[f].domain,
                                fetches[f].type) :
        LET sent == IF fetches[f].pending.kind = "network" THEN 1 ELSE 0 IN
        /\ dnsCache' = IF o.success /\ ~o.fromCache
                       THEN cacheDnsResponse(dnsCache, fetches[f].domain,
                                             fetches[f].type, o.data)
                       ELSE dnsCache
        /\ fetches' = [fetches EXCEPT ![f] =
              [@ EXCEPT !.pc = "done", !.pending = NoPending, !.settledAt = dateNow,
                        !.requests = @ + sent,
                        !.replies = IF sent = 0 THEN @
                                    ELSE Append(@, IF o.success THEN "ok"
                                                   ELSE "failed"),
                        !.result = DnsFetchResult(o)]]
    /\ UNCHANGED <<dateNow, ticks, fetchesStarted, responseCache>>

\* time passes
Advances == {CACHE_TTL - 1, CACHE_TTL, RESPONSE_CACHE_TTL - 1, RESPONSE_CACHE_TTL}
TickClock(a) ==
    /\ ticks < MaxTicks
    /\ ticks' = ticks + 1
    /\ dateNow' = dateNow + a
    /\ UNCHANGED <<fetches, fetchesStarted, responseCache, dnsCache>>

\* the decimal numeral of n
RECURSIVE Decimal(_)
Decimal(n) ==
    LET digit == <<"0", "1", "2", "3", "4", "5", "6", "7", "8", "9">>[(n % 10) + 1]
    IN IF n < 10 THEN <<digit>> ELSE Append(Decimal(n \div 10), digit)

\* caches that earlier calls have filled with n names, one a millisecond
EarlierName(i) == Decimal(i) \o <<".", "c">>
EarlierResponseCache(n) ==
    [i \in 1..n |-> [key |-> createResponseCacheKey(EarlierName(i)),
                     value |-> [data |-> BodyBare, timestamp |-> i,
                                ttl |-> RESPONSE_CACHE_TTL]]]
EarlierDnsCache(n) ==
    [i \in 1..n |->
        [key |-> createCacheKey(EarlierName(i), DnsRecordType.A),
         value |-> [response |-> [Status |-> DnsResponseStatus.SERVFAIL,
                                  Answer |-> << >>, Authority |-> << >>],
                    timestamp |-> i, ttl |-> CACHE_TTL]]]

\* ---------------------------------------------------------------------------
\* Idle state of each part, for the specifications that do not run it
\* ---------------------------------------------------------------------------
DueIdle == [alert |-> [alertDate |-> 0, reminderFrequency |-> "once",
                       lastNotified |-> NoTime, expirationDate |-> 0,
                       daysBeforeExpiration |-> 0],
            now |-> 0]
NoDue == [done |-> FALSE, result |-> FALSE, resultV1 |-> FALSE]

CheckIdleIn == [domain |-> << >>, dnsResult |-> DnsFailure, soaResult |-> DnsFailure,
                body |-> NoBody]
NoCheck == [done |-> FALSE, by |-> "none", given |-> FALSE, result |-> NoResult]

AlertsAtRest ==
    /\ store = {}
    /\ alerts = {}
    /\ swInbox = << >>
    /\ calls = [c \in CallIds |-> NoCall]
    /\ passes = [p \in PassIds |-> IdlePass]
    /\ clock = 0
    /\ nextId = 1
    /\ activated = FALSE
    /\ started = 0
    /\ syncReport = "none"
    /\ dbVersion = 0

DueAtRest ==
    /\ dueIn = DueIdle
    /\ dueOut = NoDue

\* the component as set up, before onMounted
ComponentAtRest ==
    /\ mounted = "no"
    /\ debounceTimer = FALSE
    /\ changes = 0
    /\ availabilityStatus = "UNKNOWN"
    /\ domainInfo = NullDomain
    /\ isLoadingAvailability = FALSE
    /\ isLoadingRdap = FALSE
    /\ lookups = [l \in LookupIds |-> NoLookup]
    /\ lookupsStarted = 0

\* the component and the two clients after the modules have loaded
EngineAtRest ==
    /\ ComponentAtRest
    /\ responseCache = << >>
    /\ dnsCache = << >>

CheckAtRest ==
    /\ chkIn = CheckIdleIn
    /\ chkOut = NoCheck

\* ---------------------------------------------------------------------------
\* RDAP bootstrap: getServices (rdapService.ts) and its callers
\* ---------------------------------------------------------------------------
BOOTSTRAP_CACHE_TTL == 86400000     \* ms, 24 hours
BOOTSTRAP_TIMEOUT   == 15000        \* ms, RDAP_CONFIG.TIMEOUT

BootIds == 1..MaxBootCalls
BootCallers == {"fetchRdap", "getTlds"}

\* one call of getServices: issuedAt is the time its request was sent
NoBootCall == [pc |-> "idle", caller |-> "none", issuedAt |-> 0,
               success |-> FALSE, fromCache |-> FALSE]

\* what the bootstrap request can come to: a 200 with a services array, a
\* status that is not ok, a body without a services array, the timeout
\* promise winning the race, a rejected fetch
BootstrapReplies == {"ok", "http", "invalid", "timeout", "rejected"}

\* the test at the head of getServices
BootstrapCacheValid ==
    cachedServices /\ dateNow - lastBootstrapFetch < BOOTSTRAP_CACHE_TTL

\* getServices(), called by fetchRdap or by getTlds, up to its first await:
\* answered from cachedServices, or the bootstrap request is sent
GetServices(b, caller) ==
    /\ bootStarted < MaxBootCalls
    /\ b = bootStarted + 1
    /\ bootStarted' = b
    /\ bootCalls' = [bootCalls EXCEPT ![b] =
          IF BootstrapCacheValid
          THEN [NoBootCall EXCEPT !.pc = "done", !.caller = caller,
                                  !.success = TRUE, !.fromCache = TRUE]
          ELSE [NoBootCall EXCEPT !.pc = "awaiting", !.caller = caller,
                                  !.issuedAt = dateNow]]
    /\ UNCHANGED <<cachedServices, lastBootstrapFetch, dateNow>>

\* getServices() once the race of the request and the timeout is over; a
\* reply that arrives BOOTSTRAP_TIMEOUT ms or more after the request lost
\* the race
BootstrapSettles(b) ==
    /\ bootCalls[b].pc = "awaiting"
    /\ \E reply \in BootstrapReplies :
          /\ reply # "timeout" => dateNow - bootCalls[b].issuedAt < BOOTSTRAP_TIMEOUT
          /\ IF reply = "ok"
             THEN /\ cachedServices' = TRUE
                  /\ lastBootstrapFetch' = dateNow
                  /\ bootCalls' = [bootCalls EXCEPT ![b].pc = "done",
                                                    ![b].success = TRUE]
             ELSE /\ bootCalls' = [bootCalls EXCEPT ![b].pc = "done"]
                  /\ UNCHANGED <<cachedServices, lastBootstrapFetch>>
    /\ UNCHANGED <<bootStarted, dateNow>>

BootAdvances == {1, BOOTSTRAP_TIMEOUT, BOOTSTRAP_CACHE_TTL - 1, BOOTSTRAP_CACHE_TTL}

\* time passes
BootTick(a) ==
    /\ ticks < MaxBootTicks
    /\ ticks' = ticks + 1
    /\ dateNow' = dateNow + a
    /\ UNCHANGED <<cachedServices, lastBootstrapFetch, bootCalls, bootStarted>>

\* the worker has shown no notification
NotifyAtRest == notifications = [id \in Ids |-> 0]

\* no fetchRdap has selected a provider
ProviderAtRest ==
    /\ servicesData = << >>
    /\ selections = {}

\* the module has just been loaded
BootAtRest ==
    /\ cachedServices = FALSE
    /\ lastBootstrapFetch = 0
    /\ bootCalls = [b \in BootIds |-> NoBootCall]
    /\ bootStarted = 0

\* no domain is bookmarked and no item is toggling
BookmarkAtRest ==
    /\ domainsStore = {}
    /\ isBookmarked = [d \in Domains |-> FALSE]
    /\ isLoadingBookmark = [d \in Domains |-> FALSE]

ClientsAtRest ==
    /\ dateNow = 0
    /\ ticks = 0
    /\ fetches = [f \in FetchIds |-> NoFetch]
    /\ fetchesStarted = 0

\* ---------------------------------------------------------------------------
\* Specification of the alert subsystem
\* ---------------------------------------------------------------------------
InitAlerts ==
    /\ AlertsAtRest
    /\ DueAtRest
    /\ domainName = << >>
    /\ EngineAtRest
    /\ ClientsAtRest
    /\ BookmarkAtRest
    /\ BootAtRest
    /\ ProviderAtRest
    /\ NotifyAtRest
    /\ CheckAtRest

NextAlerts ==
    \/ \E c \in CallIds : CallSaveAlert(c) /\ UNCHANGED restVars
    \/ \E c \in CallIds : CallRemoveAlertByDomain(c) /\ UNCHANGED restVars
    \/ \E c \in CallIds : DbRemoveAlertsByDomain(c) /\ UNCHANGED restVars
    \/ \E c \in CallIds : AfterRemoveAlertsByDomain(c) /\ UNCHANGED restVars
    \/ \E c \in CallIds : DbSaveAlert(c) /\ UNCHANGED restVars
    \/ \E c \in CallIds : AfterSaveAlert(c) /\ UNCHANGED restVars
    \/ \E c \in CallIds : CallRemoveAlert(c) /\ UNCHANGED restVars
    \/ \E c \in CallIds : DbRemoveAlert(c) /\ UNCHANGED restVars
    \/ \E c \in CallIds : AfterRemoveAlert(c) /\ UNCHANGED restVars
    \/ \E c \in CallIds : CallGetAllAlerts(c) /\ UNCHANGED restVars
    \/ \E c \in CallIds : DbGetAllAlerts(c) /\ UNCHANGED restVars
    \/ \E c \in CallIds : AfterGetAllAlerts(c) /\ UNCHANGED restVars
    \/ TriggerNotificationCheck /\ UNCHANGED restVars
    \/ \E p \in PassIds : Activate(p) /\ UNCHANGED restVars
    \/ \E p \in PassIds : PeriodicSync(p) /\ UNCHANGED restVars
    \/ \E p \in PassIds : HandleCheckNotifications(p) /\ UNCHANGED restVars
    \/ HandleSyncAlerts /\ UNCHANGED <<nonAlertVars, dbVersion>>
    \/ \E p \in PassIds : PassLoad(p) /\ UNCHANGED restVars
    \/ \E p \in PassIds : PassScan(p) /\ UNCHANGED restVars
    \/ \E p \in PassIds : PassShow(p) /\ UNCHANGED restVars
    \/ \E p \in PassIds : PassSave(p) /\ UNCHANGED restVars
    \/ \E p \in PassIds : PassEnd(p) /\ UNCHANGED restVars
    \/ Tick /\ UNCHANGED restVars

SpecAlerts == InitAlerts /\ [][NextAlerts]_vars

\* ---------------------------------------------------------------------------
\* Specification of the alert subsystem with the schema versions followed
\* ---------------------------------------------------------------------------
\* SpecAlerts lets every database step fail at any time and does not say why.
\* Here the version each side asks for decides whether its open can succeed.
SW_DB_VERSION == 6      \* SW_CONFIG.dbVersion
DB_VERSION    == 7      \* DB_CONFIG.version

\* indexedDB.open(name, version): VersionError when the database is newer;
\* an older or absent database is upgraded to the version asked for
CanOpen(version) == dbVersion <= version
OpenedVersion(version) == IF dbVersion < version THEN version ELSE dbVersion

\* getDb() inside the dbService operation of call c: openDB(name, DB_VERSION)
getDb(c) ==
    /\ calls'[c].ok => CanOpen(DB_VERSION)
    /\ dbVersion' = IF calls'[c].ok THEN OpenedVersion(DB_VERSION) ELSE dbVersion

\* initializeDatabase() inside a database operation of the worker that ends
\* with the given success: indexedDB.open(dbName, SW_DB_VERSION)
initializeDatabase(success) ==
    /\ success => CanOpen(SW_DB_VERSION)
    /\ dbVersion' = IF success THEN OpenedVersion(SW_DB_VERSION) ELSE dbVersion

InitVersions == InitAlerts

\* sendBackgroundNotification and saveAlertToDB are not among the steps: the
\* pass reaches them only with an alert loaded (NoAlertLoaded below).
NextVersions ==
    \/ \E c \in CallIds : CallSaveAlert(c) /\ UNCHANGED restVars
    \/ \E c \in CallIds : CallRemoveAlertByDomain(c) /\ UNCHANGED restVars
    \/ \E c \in CallIds : DbRemoveAlertsByDomain(c) /\ getDb(c)
                          /\ UNCHANGED <<nonAlertVars, syncReport>>
    \/ \E c \in CallIds : AfterRemoveAlertsByDomain(c) /\ UNCHANGED restVars
    \/ \E c \in CallIds : DbSaveAlert(c) /\ getDb(c)
                          /\ UNCHANGED <<nonAlertVars, syncReport>>
    \/ \E c \in CallIds : AfterSaveAlert(c) /\ UNCHANGED restVars
    \/ \E c \in CallIds : CallRemoveAlert(c) /\ UNCHANGED restVars
    \/ \E c \in CallIds : DbRemoveAlert(c) /\ getDb(c)
                          /\ UNCHANGED <<nonAlertVars, syncReport>>
    \/ \E c \in CallIds : AfterRemoveAlert(c) /\ UNCHANGED restVars
    \/ \E c \in CallIds : CallGetAllAlerts(c) /\ UNCHANGED restVars
    \/ \E c \in CallIds : DbGetAllAlerts(c) /\ getDb(c)
                          /\ UNCHANGED <<nonAlertVars, syncReport>>
    \/ \E c \in CallIds : AfterGetAllAlerts(c) /\ UNCHANGED restVars
    \/ TriggerNotificationCheck /\ UNCHANGED restVars
    \/ \E p \in PassIds : Activate(p) /\ UNCHANGED restVars
    \/ \E p \in PassIds : PeriodicSync(p) /\ UNCHANGED restVars
    \/ \E p \in PassIds : HandleCheckNotifications(p) /\ UNCHANGED restVars
    \/ HandleSyncAlerts /\ initializeDatabase(syncReport' = "success")
                        /\ UNCHANGED nonAlertVars
    \/ \E p \in PassIds : PassLoad(p) /\ initializeDatabase(passes'[p].pc = "scan")
                          /\ UNCHANGED <<nonAlertVars, syncReport>>
    \/ \E p \in PassIds : PassScan(p) /\ UNCHANGED restVars
    \/ \E p \in PassIds : PassEnd(p) /\ UNCHANGED restVars
    \/ Tick /\ UNCHANGED restVars

SpecVersions == InitVersions /\ [][NextVersions]_vars

\* no pass ever holds an alert, so none reaches showNotification
NoAlertLoaded ==
    \A p \in PassIds : passes[p].alerts = {} /\ passes[p].pc \notin {"showing", "saving"}

\* ---------------------------------------------------------------------------
\* Bookmarks: DomainItem.vue over the 'domains' object store, one item per
\* domain, next to the item's alert handlers
\* ---------------------------------------------------------------------------
\* checkBookmarkStatus() and the assignment in loadDomainData
CheckBookmarkStatus(d) ==
    /\ \E ok \in BOOLEAN :
          isBookmarked' = [isBookmarked EXCEPT ![d] = ok /\ d \in domainsStore]
    /\ UNCHANGED <<domainsStore, isLoadingBookmark>>

\* toggleBookmark() up to its first await
ToggleBookmark(d) ==
    /\ ~isLoadingBookmark[d]
    /\ isLoadingBookmark' = [isLoadingBookmark EXCEPT ![d] = TRUE]
    /\ UNCHANGED <<domainsStore, isBookmarked>>

\* toggleBookmark() from getDb() on: db.delete or db.add on 'domains' (add
\* rejects a key that is already stored), then the flag is flipped; an error
\* is logged and the flag stays
ToggleBookmarkSettles(d) ==
    /\ isLoadingBookmark[d]
    /\ \E ok \in BOOLEAN :
          LET done == IF isBookmarked[d] THEN ok ELSE ok /\ d \notin domainsStore
          IN  /\ domainsStore' =
                    IF ~done THEN domainsStore
                    ELSE IF isBookmarked[d] THEN domainsStore \ {d}
                    ELSE domainsStore \cup {d}
              /\ isBookmarked' =
                    IF done THEN [isBookmarked EXCEPT ![d] = ~isBookmarked[d]]
                    ELSE isBookmarked
    /\ isLoadingBookmark' = [isLoadingBookmark EXCEPT ![d] = FALSE]

\* the page is open under a worker that is already active and idle
InitBookmark ==
    /\ store = {}
    /\ alerts = {}
    /\ swInbox = << >>
    /\ calls = [c \in CallIds |-> NoCall]
    /\ passes = [p \in PassIds |-> IdlePass]
    /\ clock = 0
    /\ nextId = 1
    /\ activated = TRUE
    /\ started = 0
    /\ syncReport = "none"
    /\ dbVersion = 0
    /\ DueAtRest
    /\ domainName = << >>
    /\ EngineAtRest
    /\ ClientsAtRest
    /\ CheckAtRest
    /\ BookmarkAtRest
    /\ BootAtRest
    /\ ProviderAtRest
    /\ NotifyAtRest

\* handleSaveAlert, handleDeleteAlert and toggleBookmark of the items, and the
\* worker's handling of the messages they cause
NextBookmark ==
    \/ \E c \in CallIds : CallSaveAlert(c) /\ UNCHANGED restVars
    \/ \E c \in CallIds : CallRemoveAlertByDomain(c) /\ UNCHANGED restVars
    \/ \E c \in CallIds : DbRemoveAlertsByDomain(c) /\ UNCHANGED restVars
    \/ \E c \in CallIds : AfterRemoveAlertsByDomain(c) /\ UNCHANGED restVars
    \/ \E c \in CallIds : DbSaveAlert(c) /\ UNCHANGED restVars
    \/ \E c \in CallIds : AfterSaveAlert(c) /\ UNCHANGED restVars
    \/ HandleSyncAlerts /\ UNCHANGED <<nonAlertVars, dbVersion>>
    \/ \E d \in Domains : CheckBookmarkStatus(d) /\ UNCHANGED nonBookmarkVars
    \/ \E d \in Domains : ToggleBookmark(d) /\ UNCHANGED nonBookmarkVars
    \/ \E d \in Domains : ToggleBookmarkSettles(d) /\ UNCHANGED nonBookmarkVars

SpecBookmark == InitBookmark /\ [][NextBookmark]_vars

\* ---------------------------------------------------------------------------
\* Specification of the bootstrap fetch under concurrent callers
\* ---------------------------------------------------------------------------
InitBootstrap == InitAlerts

NextBootstrap ==
    \/ \E b \in BootIds, caller \in BootCallers :
          GetServices(b, caller) /\ UNCHANGED nonBootVars
    \/ \E b \in BootIds : BootstrapSettles(b) /\ UNCHANGED nonBootVars
    \/ \E a \in BootAdvances :
          BootTick(a) /\ UNCHANGED <<alertVars, dueVars, engineVars, checkVars,
                                     bookmarkVars, fetches, fetchesStarted,
                                     providerVars, notifyVars>>

SpecBootstrap == InitBootstrap /\ [][NextBootstrap]_vars

\* ---------------------------------------------------------------------------
\* Specification of the due-ness function on drawn inputs
\* ---------------------------------------------------------------------------
DueTimes == {t \in 0..MaxDueNow : t % DAY \in {0, 1, DAY - 1}}

DueInputs ==
    { [alert |-> [alertDate |-> d, reminderFrequency |-> f, lastNotified |-> l,
                  expirationDate |-> d + DAY * n, daysBeforeExpiration |-> n],
       now |-> t] :
        d \in {0, DAY, 2 * DAY}, f \in Frequencies, l \in {NoTime, 0, DAY},
        n \in {0, 1}, t \in DueTimes }

InitDue ==
    /\ AlertsAtRest
    /\ domainName = << >>
    /\ EngineAtRest
    /\ ClientsAtRest
    /\ BookmarkAtRest
    /\ BootAtRest
    /\ ProviderAtRest
    /\ NotifyAtRest
    /\ CheckAtRest
    /\ dueIn \in DueInputs
    /\ dueOut = NoDue

\* both versions of the function are applied to the drawn (alert, now)
EvaluateDue ==
    /\ ~dueOut.done
    /\ dueOut' = [done |-> TRUE,
                  result   |-> shouldSendNotification(dueIn.alert, dueIn.now),
                  resultV1 |-> shouldSendNotificationV1(dueIn.alert, dueIn.now)]
    /\ UNCHANGED <<dueIn>>
    /\ UNCHANGED nonDueVars

NextDue == EvaluateDue

SpecDue == InitDue /\ [][NextDue]_vars

\* ---------------------------------------------------------------------------
\* Specification of the resolution engine
\* ---------------------------------------------------------------------------
InitEngine ==
    /\ domainName \in EngineDomains
    /\ EngineAtRest
    /\ ClientsAtRest
    /\ BookmarkAtRest
    /\ BootAtRest
    /\ ProviderAtRest
    /\ NotifyAtRest
    /\ AlertsAtRest
    /\ DueAtRest
    /\ CheckAtRest

NextEngine ==
    \/ Mount /\ UNCHANGED nonEngineVars
    \/ \E d \in EngineDomains : DomainChange(d) /\ UNCHANGED nonEngineVars
    \/ DebounceFires /\ UNCHANGED nonEngineVars
    \/ Unmount /\ UNCHANGED nonEngineVars
    \/ \E l \in LookupIds : RdapSettles(l) /\ UNCHANGED nonEngineVars
    \/ \E l \in LookupIds : DnsSettles(l) /\ UNCHANGED nonEngineVars
    \/ \E l \in LookupIds : SoaSettles(l) /\ UNCHANGED nonEngineVars
    \/ \E l \in LookupIds : RetrySettles(l) /\ UNCHANGED nonEngineVars
    \/ \E l \in LookupIds : RetryTimeout(l) /\ UNCHANGED nonEngineVars
    \/ \E l \in LookupIds : LateRetrySettles(l) /\ UNCHANGED nonEngineVars

SpecEngine == InitEngine /\ [][NextEngine]_vars

\* ---------------------------------------------------------------------------
\* Specification of the resolution engine of a component whose name stays as
\* it was mounted, with the network's answers to its first fetchRdap followed
\* ---------------------------------------------------------------------------
InitAnswers == InitEngine

NextAnswers ==
    \/ Mount /\ UNCHANGED nonEngineVars
    \/ \E l \in LookupIds : RdapReturns(l) /\ UNCHANGED nonEngineVars
    \/ \E l \in LookupIds : RdapAnswered(l) /\ UNCHANGED nonEngineVars
    \/ \E l \in LookupIds : DnsSettles(l) /\ UNCHANGED nonEngineVars
    \/ \E l \in LookupIds : SoaSettles(l) /\ UNCHANGED nonEngineVars
    \/ \E l \in LookupIds : RetrySettles(l) /\ UNCHANGED nonEngineVars
    \/ \E l \in LookupIds : RetryTimeout(l) /\ UNCHANGED nonEngineVars
    \/ \E l \in LookupIds : LateRetrySettles(l) /\ UNCHANGED nonEngineVars

SpecAnswers == InitAnswers /\ [][NextAnswers]_vars

\* ---------------------------------------------------------------------------
\* Specification of the DomainCheckResult constructors on drawn inputs: an
\* RDAP document, and the results of the A and SOA queries for a name
\* ---------------------------------------------------------------------------
CheckInputs ==
    { [domain |-> d, dnsResult |-> a, soaResult |-> s, body |-> b] :
        d \in EngineDomains \ {DomNone},
        a \in {DnsFailure}
              \cup {DnsSuccess(r, FALSE) :
                       r \in DnsAResponses(DomA) \cup DnsNxdomainResponses(DomA)},
        s \in {DnsFailure} \cup {DnsSuccess(r, FALSE) : r \in DnsSOAResponses(DomA)},
        b \in RdapBodies }

InitCheck ==
    /\ chkIn \in CheckInputs
    /\ chkOut = NoCheck
    /\ domainName = << >>
    /\ EngineAtRest
    /\ ClientsAtRest
    /\ BookmarkAtRest
    /\ BootAtRest
    /\ ProviderAtRest
    /\ NotifyAtRest
    /\ AlertsAtRest
    /\ DueAtRest

\* the body passes performRdapQuery's validation
Validated(body) == performRdapQuery([kind |-> "ok", status |-> 200, body |-> body],
                                    0).success

\* createDomainCheckFromRdap on a validated RDAP document
ConstructFromRdap ==
    /\ ~chkOut.done
    /\ Validated(chkIn.body)
    /\ chkOut' = [done |-> TRUE, by |-> "rdap", given |-> TRUE,
                  result |-> createDomainCheckFromRdap(chkIn.body)]
    /\ UNCHANGED chkIn

\* createDomainCheckFromDns on the availability the DNS client infers
ConstructFromDns ==
    /\ ~chkOut.done
    /\ chkOut' = [done |-> TRUE, by |-> "dns", given |-> FALSE,
                  result |-> createDomainCheckFromDns(
                      getDomainAvailabilityStatus(chkIn.domain, chkIn.dnsResult,
                                                  chkIn.soaResult))]
    /\ UNCHANGED chkIn

\* createHybridDomainCheck on that availability, with or without the metadata
\* of a validated RDAP document
ConstructHybrid ==
    /\ ~chkOut.done
    /\ \E given \in BOOLEAN :
        /\ given => Validated(chkIn.body)
        /\ chkOut' = [done |-> TRUE, by |-> "hybrid", given |-> given,
                      result |-> createHybridDomainCheck(
                          getDomainAvailabilityStatus(chkIn.domain, chkIn.dnsResult,
                                                      chkIn.soaResult),
                          [given |-> given,
                           expirationDate |-> extractExpirationDate(chkIn.body),
                           creationDate |-> extractCreationDate(chkIn.body),
                           registrar |-> extractRegistrar(chkIn.body)])]
    /\ UNCHANGED chkIn

NextCheck ==
    \/ ConstructFromRdap /\ UNCHANGED nonCheckVars
    \/ ConstructFromDns /\ UNCHANGED nonCheckVars
    \/ ConstructHybrid /\ UNCHANGED nonCheckVars

SpecCheck == InitCheck /\ [][NextCheck]_vars

\* ---------------------------------------------------------------------------
\* Specification of the two clients under their callers, from the moment the
\* page has loaded
\* ---------------------------------------------------------------------------
InitClients ==
    /\ ClientsAtRest
    /\ BookmarkAtRest
    /\ BootAtRest
    /\ ProviderAtRest
    /\ NotifyAtRest
    /\ domainName = << >>
    /\ EngineAtRest
    /\ AlertsAtRest
    /\ DueAtRest
    /\ CheckAtRest

NextClients ==
    \/ \E d \in CalledDomains : CallFetchRdap(d) /\ UNCHANGED nonClientVars
    \/ \E d \in CalledDomains, type \in ClientTypes :
          CallFetchDns(d, type) /\ UNCHANGED nonClientVars
    \/ \E f \in FetchIds : FetchRdapReturns(f) /\ UNCHANGED nonClientVars
    \/ \E f \in FetchIds : FetchRdapSettles(f) /\ UNCHANGED nonClientVars
    \/ \E f \in FetchIds : FetchDnsSettles(f) /\ UNCHANGED nonClientVars
    \/ \E a \in Advances : TickClock(a) /\ UNCHANGED nonClientVars

SpecClients == InitClients /\ [][NextClients]_vars

\* ---------------------------------------------------------------------------
\* Specification of the two clients on caches that earlier calls, one a
\* millisecond, have filled to capacity or to one entry less; the calls that
\* follow come before the clock moves on
\* ---------------------------------------------------------------------------
InitCapacity ==
    /\ \E room \in {0, 1} :
          /\ responseCache = EarlierResponseCache(RESPONSE_CACHE_MAX - room)
          /\ dnsCache = EarlierDnsCache(DNS_CACHE_MAX - room)
    /\ dateNow = DNS_CACHE_MAX
    /\ ticks = 0
    /\ fetches = [f \in FetchIds |-> NoFetch]
    /\ fetchesStarted = 0
    /\ domainName = << >>
    /\ ComponentAtRest
    /\ AlertsAtRest
    /\ DueAtRest
    /\ CheckAtRest
    /\ BookmarkAtRest
    /\ BootAtRest
    /\ ProviderAtRest
    /\ NotifyAtRest

NextCapacity ==
    \/ \E d \in ClientDomains : CallFetchRdap(d) /\ UNCHANGED nonClientVars
    \/ \E d \in ClientDomains, type \in ClientTypes :
          CallFetchDns(d, type) /\ UNCHANGED nonClientVars
    \/ \E f \in FetchIds : FetchRdapReturns(f) /\ UNCHANGED nonClientVars
    \/ \E f \in FetchIds : FetchRdapSettles(f) /\ UNCHANGED nonClientVars
    \/ \E f \in FetchIds : FetchDnsSettles(f) /\ UNCHANGED nonClientVars

SpecCapacity == InitCapacity /\ [][NextCapacity]_vars

\* ---------------------------------------------------------------------------
\* Claims
\* ---------------------------------------------------------------------------
IntervalOf(f) == IF f = "daily" THEN 1 * DAY ELSE 7 * DAY

\* C1: for a daily (weekly) alert with lastNotified set and now >= alertDate,
\* shouldSendNotification returns true once 1 day (7 days) has elapsed since
\* lastNotified.
C1_DueAgainAfterInterval ==
    LET a == dueIn.alert IN
    (/\ dueOut.done
     /\ a.reminderFrequency \in {"daily", "weekly"}
     /\ a.lastNotified # NoTime
     /\ dueIn.now >= a.alertDate
     /\ dueIn.now - a.lastNotified >= IntervalOf(a.reminderFrequency))
    => dueOut.result = TRUE

C4_OneAlertPerDomain ==
    (\A c \in CallIds : calls[c].pc = "idle")
        => \A r \in store : \A q \in store : r.domain = q.domain => r.id = q.id

\* a Domain without RDAP metadata
NoMetadata(d) ==
    d.isNull \/ (/\ d.expirationDate = NoDate
                 /\ d.creationDate = NoDate
                 /\ d.registrar = NoString)

\* the A response of a lookup is NOERROR with at least one A record
HasARecord(dnsResult) ==
    /\ dnsResult.success
    /\ dnsResult.data.Status = DnsResponseStatus.NOERROR
    /\ \E i \in 1..Len(dnsResult.data.Answer) :
          dnsResult.data.Answer[i].type = DnsRecordType.A

\* C5: when the RDAP lookup succeeds with data, the engine reports
\* availability NOT_AVAILABLE with confidence HIGH and source RDAP.
C5_RdapSuccessReported ==
    [][\A l \in LookupIds :
          (lookups[l].pc = "rdap" /\ lookups'[l].rdapResult.success)
            => /\ lookups'[l].checkResult.availability = "NOTAVAILABLE"
               /\ lookups'[l].checkResult.confidence = "high"
               /\ lookups'[l].checkResult.source = "rdap"
               /\ availabilityStatus' = "NOTAVAILABLE"
               /\ domainInfo'.availability = "NOTAVAILABLE"]_vars

\* C5 witness: a lookup has ended on a successful first RDAP answer
C5_Witness ==
    \E l \in LookupIds :
        /\ lookups[l].pc = "done"
        /\ lookups[l].rdapResult.success
        /\ ~lookups[l].rdapResult.fromCache
        /\ lookups[l].checkResult.source = "rdap"
        /\ availabilityStatus = "NOTAVAILABLE"

C7_RetryMetadata ==
    [][\A l \in LookupIds :
          (/\ lookups[l].pc = "race"
           /\ lookups'[l].pc = "done"
           /\ lookups'[l].retryResult.success)
            => /\ ~lookups[l].rdapResult.success
               /\ lookups[l].dnsAvailability = "NOTAVAILABLE"
               /\ lookups[l].waited < RETRY_TIMEOUT
               /\ ~domainInfo'.isNull
               /\ domainInfo'.expirationDate =
                      extractExpirationDate(lookups'[l].retryResult.data)
               /\ domainInfo'.creationDate =
                      extractCreationDate(lookups'[l].retryResult.data)
               /\ domainInfo'.registrar =
                      extractRegistrar(lookups'[l].retryResult.data)]_vars

\* C7 witness: a retry won the race with a document that has all three
\* members, and domainInfo shows them
C7_Witness ==
    \E l \in LookupIds :
        /\ lookups[l].pc = "done"
        /\ lookups[l].raceWinner = "retry"
        /\ lookups[l].retryResult.success
        /\ lookups[l].retryResult.data = BodyFull
        /\ domainInfo.expirationDate = ParseDate("2030-06-01T00:00:00Z")
        /\ domainInfo.creationDate = ParseDate("2020-01-01T00:00:00Z")
        /\ domainInfo.registrar = "Reg Org"

\* C8: when the retry fails, or the 3 s timer fires first, the result shown
\* for the domain the run asked about is the DNS-only verdict: NOT_AVAILABLE
\* without RDAP expiration, creation or registrar metadata; and the retry's
\* response arriving later changes neither.
C8_DnsOnlyAfterLostRace ==
    [][\A l \in LookupIds :
          /\ (/\ lookups[l].pc = "race"
              /\ lookups'[l].pc \in {"late", "done"}
              /\ ~lookups'[l].retryResult.success
              /\ domainName = lookups[l].query)
                => /\ availabilityStatus' = "NOTAVAILABLE"
                   /\ NoMetadata(domainInfo')
          /\ (lookups[l].pc = "late" /\ lookups'[l] # lookups[l])
                => /\ availabilityStatus' = availabilityStatus
                   /\ domainInfo' = domainInfo]_vars

C10_HighOnlyRdapOrNxdomain ==
    chkOut.done =>
        LET fromRdap == chkOut.by = "rdap" \/ (chkOut.by = "hybrid" /\ chkOut.given)
            nxdomain == /\ chkIn.dnsResult.success
                        /\ chkIn.dnsResult.data.Status = DnsResponseStatus.NXDOMAIN
        IN /\ chkOut.result.confidence = "high" => (fromRdap \/ nxdomain)
           /\ (~fromRdap /\ ~nxdomain) => chkOut.result.confidence \in {"medium", "low"}

\* C11: once a newer lookup has started, a step of an older lookup writes
\* neither availabilityStatus nor domainInfo; and when every lookup has
\* settled, what is shown was written by the latest lookup.
C11_SupersededNeverWritten ==
    [][\A l \in LookupIds :
          (lookups'[l] # lookups[l] /\ lookupsStarted > l)
            => /\ availabilityStatus' = availabilityStatus
               /\ domainInfo' = domainInfo]_vars

\* C12 as stated: whenever the debounce timer stops being armed, exactly one
\* pass has been started by that step, for the domain name last set.
C12_BurstStartsOnePass ==
    [][(debounceTimer /\ ~debounceTimer')
          => /\ lookupsStarted' = lookupsStarted + 1
             /\ lookups'[lookupsStarted'].query = domainName]_vars

\* C12, amended: a change of the prop only (re)arms the timer and starts no
\* pass; after mounting, a pass is started only by the timer firing, one per
\* firing and for the domain name last set; and a firing starts that pass
\* unless the name last set is empty.  A timer cleared by unmounting starts
\* nothing.
C12_OnePassPerFiring ==
    [][/\ (domainName' # domainName)
            => (lookupsStarted' = lookupsStarted /\ debounceTimer')
       /\ (lookupsStarted' # lookupsStarted /\ mounted = "yes")
            => /\ debounceTimer /\ ~debounceTimer'
               /\ lookupsStarted' = lookupsStarted + 1
               /\ lookups'[lookupsStarted'].query = domainName
               /\ lookups'[lookupsStarted'].pc = "rdap"
       /\ (debounceTimer /\ ~debounceTimer' /\ mounted' = "yes" /\ domainName # << >>)
            => lookupsStarted' = lookupsStarted + 1
       /\ (debounceTimer /\ ~debounceTimer' /\ mounted' = "gone")
            => lookupsStarted' = lookupsStarted]_vars

\* a burst of two changes after mounting with no name, then one firing: the
\* only pass is the one for the name last set
C12_Witness ==
    /\ mounted = "yes"
    /\ changes = 2
    /\ ~debounceTimer
    /\ lookupsStarted = 1
    /\ lookups[1].query = domainName

\* C13: the DNS response cache never holds more than 1000 entries and the
\* RDAP response cache never more than 500, whatever calls have been made.
C13_CachesWithinCapacity ==
    /\ Len(dnsCache) <= DNS_CACHE_MAX
    /\ Len(responseCache) <= RESPONSE_CACHE_MAX

\* both caches were full when a new name was stored: each holds the new name
\* and has dropped its oldest entry
C13_Witness ==
    /\ Len(dnsCache) = DNS_CACHE_MAX
    /\ Len(responseCache) = RESPONSE_CACHE_MAX
    /\ MapHas(dnsCache, createCacheKey(DomA, DnsRecordType.A))
    /\ MapHas(responseCache, createResponseCacheKey(DomA))
    /\ ~MapHas(dnsCache, createCacheKey(EarlierName(1), DnsRecordType.A))
    /\ ~MapHas(responseCache, createResponseCacheKey(EarlierName(1)))

\* the time to live of the entries of a client's cache
TimeToLive(svc) == IF svc = "rdap" THEN RESPONSE_CACHE_TTL ELSE CACHE_TTL
SameQuery(i, j) ==
    /\ fetches[i].svc = fetches[j].svc
    /\ fetches[i].domain = fetches[j].domain
    /\ fetches[i].type = fetches[j].type
FetchData(f) == <<fetches[f].result.body, fetches[f].result.response>>

ExpiredRdapEntry(d) ==
    /\ MapHas(responseCache, createResponseCacheKey(d))
    /\ LET e == MapGet(responseCache, createResponseCacheKey(d))
       IN dateNow - e.timestamp >= e.ttl
ExpiredDnsEntry(d, type) ==
    /\ MapHas(dnsCache, createCacheKey(d, type))
    /\ LET e == MapGet(dnsCache, createCacheKey(d, type))
       IN dateNow - e.timestamp >= e.ttl

\* C15: a call that finds an entry with now - timestamp >= ttl removes it and
\* goes on as a cache miss; and a call that returns cached data returns the
\* data of an entry with now - timestamp < ttl.
C15_ExpiredNeverReturned ==
    [][\A f \in FetchIds :
          (fetches[f].pc = "idle" /\ fetches'[f].pc = "pending")
            => /\ \A d \in CalledDomains :
                    (fetches'[f].svc = "rdap" /\ fetches'[f].domain = d)
                      => /\ ExpiredRdapEntry(d)
                              => /\ fetches'[f].pending.kind = "network"
                                 /\ ~MapHas(responseCache', createResponseCacheKey(d))
                         /\ fetches'[f].pending.kind = "cached"
                              => /\ MapHas(responseCache, createResponseCacheKey(d))
                                 /\ ~ExpiredRdapEntry(d)
                                 /\ fetches'[f].pending.body
                                      = MapGet(responseCache,
                                               createResponseCacheKey(d)).data
               /\ \A d \in CalledDomains, type \in ClientTypes :
                    (/\ fetches'[f].svc = "dns" /\ fetches'[f].domain = d
                     /\ fetches'[f].type = type)
                      => /\ ExpiredDnsEntry(d, type)
                              => /\ fetches'[f].pending.kind = "network"
                                 /\ ~MapHas(dnsCache', createCacheKey(d, type))
                         /\ fetches'[f].pending.kind = "cached"
                              => /\ MapHas(dnsCache, createCacheKey(d, type))
                                 /\ ~ExpiredDnsEntry(d, type)
                                 /\ fetches'[f].pending.response
                                      = MapGet(dnsCache,
                                               createCacheKey(d, type)).response]_vars

\* a fetchDns called exactly one ttl after the response of an earlier call for
\* the same query was stored: it is on its way to the resolver and the entry
\* is gone
C15_Witness ==
    /\ fetches[1].pc = "done"
    /\ fetches[1].svc = "dns"
    /\ fetches[1].result.success /\ ~fetches[1].result.fromCache
    /\ fetches[2].pc = "pending"
    /\ 1 \in fetches[2].after
    /\ SameQuery(1, 2)
    /\ fetches[2].calledAt - fetches[1].settledAt = CACHE_TTL
    /\ fetches[2].pending.kind = "network"
    /\ ~MapHas(dnsCache, createCacheKey(fetches[2].domain, fetches[2].type))

\* every answer a call has had so far was an HTTP 5xx
OnlyServerErrors(f) ==
    /\ fetches[f].svc = "rdap"
    /\ fetches[f].replies # << >>
    /\ \A k \in 1..Len(fetches[f].replies) : fetches[f].replies[k] = "5xx"

\* C16: an RDAP query answered with a 5xx on every attempt has made exactly 3
\* requests when it resolves, has slept 1000 ms before the second and 2000 ms
\* before the third, and resolves to a failure; until then it goes on trying;
\* and no query makes more than 3 requests.
C16_ThreeRequestsOnServerErrors ==
    \A f \in FetchIds :
        /\ fetches[f].requests <= MAX_RETRIES + 1
        /\ OnlyServerErrors(f)
             => /\ fetches[f].requests = Len(fetches[f].replies)
                /\ fetches[f].pc = "done"
                     => /\ fetches[f].requests = 3
                        /\ fetches[f].waits = <<1000, 2000>>
                        /\ ~fetches[f].result.success
                        /\ fetches[f].result.error
                /\ fetches[f].pc = "pending"
                     => /\ fetches[f].requests < 3
                        /\ fetches[f].waits
                             = SubSeq(<<1000, 2000>>, 1, fetches[f].requests)

\* a query that was answered 5xx three times and has failed
C16_Witness ==
    \E f \in FetchIds :
        /\ fetches[f].pc = "done"
        /\ fetches[f].replies = <<"5xx", "5xx", "5xx">>
        /\ fetches[f].waits = <<1000, 2000>>
        /\ ~fetches[f].result.success

\* C17: an RDAP query resolves to a failure after a network-class failure (the
\* request timed out, the connection failed or broke off) only when it has
\* made 2 further attempts.
C17_NetworkFailureRetried ==
    \A f \in FetchIds :
        (/\ fetches[f].svc = "rdap"
         /\ fetches[f].pc = "done"
         /\ fetches[f].replies # << >>
         /\ fetches[f].replies[Len(fetches[f].replies)]
               \in {"timeout", "connection", "network"})
        => fetches[f].requests = MAX_RETRIES + 1

\* C18: a call of fetchDns or fetchRdap that has resolved was not rejected, and
\* when it did not succeed its result carries an error message.
C18_NeverRejects ==
    \A f \in FetchIds :
        fetches[f].pc = "done"
          => /\ ~fetches[f].result.rejected
             /\ ~fetches[f].result.success => fetches[f].result.error

\* the hostname grammar: 1 to 253 characters, all letters, digits, hyphens or
\* dots; no label empty, none starting or ending with a hyphen, none longer
\* than 63 characters
HostnameGrammar(d) ==
    /\ Len(d) >= 1
    /\ Len(d) <= 253
    /\ \A i \in 1..Len(d) : d[i] \in AlnumChars \cup {"-", "."}
    /\ d[1] \notin {"-", "."}
    /\ d[Len(d)] \notin {"-", "."}
    /\ \A i \in 1..(Len(d) - 1) :
          <<d[i], d[i + 1]>> \notin {<<".", ".">>, <<".", "-">>, <<"-", ".">>}
    /\ \A i \in 1..(Len(d) - 63) : \E k \in i..(i + 63) : d[k] = "."

\* C19: every step of a call whose domain is outside the hostname grammar
\* leaves both caches as they were; the call reads no cache and sends no
\* request, and it resolves to a failure result.
C19_InvalidNameFailsFast ==
    [][\A f \in FetchIds :
          (fetches'[f] # fetches[f] /\ ~HostnameGrammar(fetches'[f].domain))
            => /\ responseCache' = responseCache
               /\ dnsCache' = dnsCache
               /\ ~fetches'[f].cacheRead
               /\ fetches'[f].requests = 0
               /\ fetches'[f].pc = "pending" => fetches'[f].pending.kind = "invalid"
               /\ fetches'[f].pc = "done"
                    => /\ ~fetches'[f].result.success
                       /\ fetches'[f].result.error
                       /\ ~fetches'[f].result.rejected]_vars

\* a fetchRdap of a name with a 64-character label and a fetchDns of a name of
\* 254 characters have both resolved
C19_Witness ==
    /\ fetches[1].pc = "done" /\ fetches[1].svc = "rdap"
    /\ fetches[1].domain = DomLongLabel
    /\ fetches[2].pc = "done" /\ fetches[2].svc = "dns"
    /\ fetches[2].domain = DomTooLong
    /\ ~fetches[2].result.success

\* C20: a saveAlert, removeAlert or removeAlertByDomain one of whose dbService
\* operations has failed ends by throwing.
C20_WriteFailureThrows ==
    [][\A c \in CallIds :
          (/\ calls[c].op \in {"saveAlert", "removeAlert", "removeAlertByDomain"}
           /\ calls[c].failed
           /\ calls[c].pc # "idle"
           /\ calls'[c].pc = "idle")
            => calls'[c].outcome = "threw"]_vars

C22_PassLoadsPersistedAlerts ==
    [][\A p \in PassIds :
          (/\ syncReport = "none"
           /\ store # {}
           /\ passes[p].pc = "loading"
           /\ passes'[p].pc # "loading")
            => (passes'[p].pc = "scan" /\ passes'[p].alerts = store)]_vars

\* C23: when toggleBookmark finishes un-bookmarking a domain, the store holds
\* no alert for that domain.
C23_UnbookmarkDeletesAlerts ==
    [][\A d \in Domains :
          (/\ isLoadingBookmark[d]
           /\ ~isLoadingBookmark'[d]
           /\ isBookmarked[d]
           /\ ~isBookmarked'[d])
            => IndexKeysByDomain(store', d) = {}]_vars

C25_NotDueCases ==
    LET a == dueIn.alert IN
    (/\ dueOut.done
     /\ \/ dueIn.now < a.alertDate
        \/ /\ a.lastNotified # NoTime
           /\ \/ a.reminderFrequency = "once"
              \/ dueIn.now - a.lastNotified < IntervalOf(a.reminderFrequency))
    => dueOut.result = FALSE

\* the function was applied to a daily alert past its alert date that was
\* notified less than a day before, and answered false
C25_Witness ==
    LET a == dueIn.alert IN
    /\ dueOut.done
    /\ dueIn.now >= a.alertDate
    /\ a.reminderFrequency = "daily"
    /\ a.lastNotified # NoTime
    /\ dueIn.now >= a.lastNotified
    /\ dueIn.now - a.lastNotified < IntervalOf("daily")
    /\ dueOut.result = FALSE

\* C26: a pass whose first fetchRdap succeeded is over, holds no DNS request
\* and no DNS result, and the step in which it succeeded left the DNS cache
\* as it was.
C26_NoDnsAfterRdapSuccess ==
    [][\A l \in LookupIds :
          lookups'[l].rdapResult.success
            => (/\ lookups'[l].pc = "done"
                /\ lookups'[l].pending = NoPending
                /\ lookups'[l].dnsResult = DnsFailure
                /\ lookups'[l].dnsAvailability = "none"
                /\ ~lookups[l].rdapResult.success => dnsCache' = dnsCache)]_vars

\* a pass ended on the network's answer to its first fetchRdap
C26_Witness ==
    \E l \in LookupIds :
        /\ lookups[l].rdapResult.success
        /\ ~lookups[l].rdapResult.fromCache
        /\ lookups[l].pc = "done"
        /\ availabilityStatus = "NOTAVAILABLE"

\* C27: any two bootstrap requests that both succeeded were sent at least
\* BOOTSTRAP_CACHE_TTL ms apart.
C27_BootstrapOncePerDay ==
    \A i, j \in BootIds :
        (/\ i < j
         /\ bootCalls[i].pc = "done" /\ bootCalls[i].success /\ ~bootCalls[i].fromCache
         /\ bootCalls[j].pc = "done" /\ bootCalls[j].success /\ ~bootCalls[j].fromCache)
        => bootCalls[j].issuedAt - bootCalls[i].issuedAt >= BOOTSTRAP_CACHE_TTL

\* the A query answered NOERROR, no record of its Answer is a web record, and
\* its Authority holds SOA records of zones above the name and nothing else
ParentSoaOnly(domain, dnsResult) ==
    LET r == dnsResult.data
        own == toLowerCase(domain)
    IN  /\ dnsResult.success
        /\ r.Status = DnsResponseStatus.NOERROR
        /\ \A i \in 1..Len(r.Answer) : r.Answer[i].type \notin WEB_RECORD_TYPES
        /\ Len(r.Authority) > 0
        /\ \A i \in 1..Len(r.Authority) :
              /\ r.Authority[i].type = DnsRecordType.SOA
              /\ toLowerCase(r.Authority[i].name) # own
              /\ endsWith(own, toLowerCase(r.Authority[i].name))

\* the SOA query answered NOERROR with a record in its Answer
DirectSoa(soaResult) ==
    /\ soaResult.success
    /\ soaResult.data.Status = DnsResponseStatus.NOERROR
    /\ Len(soaResult.data.Answer) > 0

\* the A query of pass l settles in this step with a parent-zone SOA only,
\* and the pass calls fetchDns for the SOA records of the same name
SoaQueryFollows(l) ==
    (/\ lookups[l].pc = "dns"
     /\ lookups'[l].pc # "dns"
     /\ ParentSoaOnly(lookups[l].query, lookups'[l].dnsResult))
    => (/\ lookups'[l].pc = "soa"
        /\ lookups'[l].query = lookups[l].query
        /\ lookups'[l].pending.kind \in {"cached", "network"})

\* the SOA query of pass l settles in this step
SoaQueryEnds(l) == lookups[l].pc = "soa" /\ lookups'[l].pc # "soa"

\* C28 as stated: after such an A answer the SOA query follows, and the
\* status is NOTAVAILABLE on a direct SOA and AVAILABLE in every other case.
C28_SoaCheckAvailableOtherwise ==
    [][\A l \in LookupIds :
          /\ SoaQueryFollows(l)
          /\ SoaQueryEnds(l) =>
                lookups'[l].dnsAvailability =
                    IF DirectSoa(lookups'[l].soaResult) THEN "NOTAVAILABLE"
                    ELSE "AVAILABLE"]_vars

\* C28 amended: after such an A answer the SOA query follows, and the status
\* is NOTAVAILABLE on a direct SOA, UNKNOWN when the SOA query fails, and
\* AVAILABLE on every other answer.
C28_SoaCheckUnknownOnFailure ==
    [][\A l \in LookupIds :
          /\ SoaQueryFollows(l)
          /\ SoaQueryEnds(l) =>
                /\ lookups'[l].dnsAvailability =
                      IF DirectSoa(lookups'[l].soaResult) THEN "NOTAVAILABLE"
                      ELSE IF ~lookups'[l].soaResult.success THEN "UNKNOWN"
                      ELSE "AVAILABLE"
                /\ availabilityStatus' = lookups'[l].dnsAvailability]_vars

\* a pass has gone through the SOA check with a failed SOA query, another
\* with an answer that holds no direct SOA
C28_Witness ==
    \E l, m \in LookupIds :
        /\ ParentSoaOnly(lookups[l].query, lookups[l].dnsResult)
        /\ ~lookups[l].soaResult.success
        /\ lookups[l].dnsAvailability = "UNKNOWN"
        /\ ParentSoaOnly(lookups[m].query, lookups[m].dnsResult)
        /\ lookups[m].soaResult.success
        /\ lookups[m].dnsAvailability = "AVAILABLE"

\* C29: whenever the A query was answered with Status 3 (NXDOMAIN), the
\* availability getDomainAvailabilityStatus returns is AVAILABLE, whatever the
\* Answer and Authority sections of the answer hold.
C29_NxdomainAvailable ==
    (/\ chkOut.done
     /\ chkOut.by \in {"dns", "hybrid"}
     /\ chkIn.dnsResult.success
     /\ chkIn.dnsResult.data.Status = 3)
    => chkOut.result.availability = "AVAILABLE"

\* the status was inferred from an NXDOMAIN answer that carries an A record
\* of the name in its Answer and the name's own SOA in its Authority
C29_Witness ==
    /\ chkOut.done
    /\ chkOut.by = "dns"
    /\ chkIn.dnsResult.success
    /\ chkIn.dnsResult.data.Status = 3
    /\ \E i \in 1..Len(chkIn.dnsResult.data.Answer) :
          /\ chkIn.dnsResult.data.Answer[i].type = DnsRecordType.A
          /\ toLowerCase(chkIn.dnsResult.data.Answer[i].name) = toLowerCase(chkIn.domain)
    /\ \E i \in 1..Len(chkIn.dnsResult.data.Authority) :
          /\ chkIn.dnsResult.data.Authority[i].type = DnsRecordType.SOA
          /\ toLowerCase(chkIn.dnsResult.data.Authority[i].name) = toLowerCase(chkIn.domain)
    /\ chkOut.result.availability = "AVAILABLE"

\* a 200 whose document lacks objectClassName or ldhName
LacksRequiredField(reply) ==
    /\ reply.kind = "ok"
    /\ reply.status = 200
    /\ reply.body.objectClassName = "" \/ reply.body.ldhName = ""

\* a request that ended in a network failure
NetworkFailed(reply) == reply.kind \in {"timeout", "connection", "network"}

\* the first fetchRdap of lookup l resolves in this step on the answer reply
ResolvesOn(l, reply) ==
    /\ lookups[l].pc = "rdap"
    /\ lookups'[l].pc # "rdap"
    /\ lookups'[l].reply = reply

\* lookup l goes on to the DNS check in this step: the result of fetchRdap is
\* a failure, nothing is shown yet, and the A query for the name is started
FallsThroughToDns(l) ==
    /\ ~lookups'[l].rdapResult.success
    /\ lookups'[l].rdapResult.data = NoBody
    /\ lookups'[l].pc = "dns"
    /\ lookups'[l].query = domainName
    /\ lookups'[l].pending = DnsPending(FetchDnsCall(domainName, DnsRecordType.A,
                                                     dnsCache))
    /\ lookups'[l].dnsAvailability = "none"
    /\ isLoadingRdap' = FALSE
    /\ UNCHANGED <<availabilityStatus, domainInfo, isLoadingAvailability,
                   responseCache>>

\* C30: when fetchRdap resolves on a 200 whose document lacks objectClassName
\* or ldhName, its result is a failure and the engine goes on to the DNS
\* check, exactly as it does when fetchRdap resolves on a network failure.
C30_InvalidDocumentFallsThrough ==
    [][\A l \in LookupIds : \A reply \in RdapReplies(0) :
          (/\ ResolvesOn(l, reply)
           /\ LacksRequiredField(reply) \/ NetworkFailed(reply))
          => FallsThroughToDns(l)]_vars

\* a lookup is in its DNS check after a 200 whose document lacks
\* objectClassName or ldhName, its A query on the way and no result shown yet
C30_Witness ==
    \E l \in LookupIds :
        /\ lookups[l].pc = "dns"
        /\ lookups[l].reply.kind = "ok"
        /\ lookups[l].reply.body \in {BodyClassless, BodyInvalid}
        /\ lookups[l].retryCount = 0
        /\ ~lookups[l].rdapResult.success
        /\ lookups[l].pending.kind = "network"
        /\ isLoadingAvailability

\* ---------------------------------------------------------------------------
\* Specification of fetchRdap's choice of a provider, on drawn domains and
\* bootstrap services arrays
\* ---------------------------------------------------------------------------
UrlC == <<"u", "/", "c", "/">>
UrlD == <<"u", "/", "d", "/">>

\* bootstrap services arrays as the IANA registry lists them, in lower case:
\* one with bare TLDs, one with dotted TLDs, one whose entry for "c" has no URL
ServicesBare   == << [tlds |-> << <<"c">> >>, urls |-> <<UrlC>>],
                     [tlds |-> << <<"d">>, <<"e">> >>, urls |-> <<UrlD>>] >>
ServicesDotted == << [tlds |-> << <<".", "d">> >>, urls |-> <<UrlD>>],
                     [tlds |-> << <<".", "c">> >>, urls |-> <<UrlC>>] >>
ServicesNoUrl  == << [tlds |-> << <<"c">> >>, urls |-> << >>],
                     [tlds |-> << <<"d">> >>, urls |-> <<UrlD>>] >>
ServicesArrays == {ServicesBare, ServicesDotted, ServicesNoUrl}

\* the domains fetchRdap is given: names that differ in letter case only, in
\* the TLD or in the label before it, and a name of another TLD
ProviderDomains ==
    { <<"a", ".", "c">>, <<"a", ".", "C">>, <<"A", ".", "c">>, <<"A", ".", "C">>,
      <<"a", ".", "d">>, <<"a", ".", "D">>, <<"a", ".", "f">> }

\* Array.prototype.includes on an array of strings
ArrayIncludes(array, x) == \E i \in 1..Len(array) : array[i] = x

\* findServiceForTld: the place of the service found in the array, 0 for undefined
findServiceForTld(tld, services) ==
    IF \E i \in 1..Len(services) :
           \/ ArrayIncludes(services[i].tlds, tld)
           \/ ArrayIncludes(services[i].tlds, <<".">> \o tld)
    THEN CHOOSE i \in 1..Len(services) :
           /\ \/ ArrayIncludes(services[i].tlds, tld)
              \/ ArrayIncludes(services[i].tlds, <<".">> \o tld)
           /\ \A j \in 1..(i - 1) :
                 /\ ~ArrayIncludes(services[j].tlds, tld)
                 /\ ~ArrayIncludes(services[j].tlds, <<".">> \o tld)
    ELSE 0

\* getServiceUrl; the empty string stands for undefined
getServiceUrl(service) == IF Len(service.urls) > 0 THEN service.urls[1] ELSE << >>

\* fetchRdap from extractTld to the call of performRdapQuery, given the
\* services array getServices delivered: the TLD, the service and the URL it
\* selects, and whether it goes on to query that URL
SelectProvider(domain, services) ==
    LET tld == extractTld(domain)
        service == findServiceForTld(tld, services)
        serviceUrl == IF service = 0 THEN << >> ELSE getServiceUrl(services[service])
    IN [domain |-> domain, tld |-> tld, service |-> service, url |-> serviceUrl,
        queried |-> tld # << >> /\ service # 0 /\ serviceUrl # << >>]

\* fetchRdap(d) on a valid name that is not in the response cache, once
\* getServices has succeeded
FetchRdapSelects(d) ==
    /\ isValidDomainForRdap(d)
    /\ \A sel \in selections : sel.domain # d
    /\ selections' = selections \cup {SelectProvider(d, servicesData)}
    /\ UNCHANGED servicesData

InitProvider ==
    /\ servicesData \in ServicesArrays
    /\ selections = {}
    /\ domainName = << >>
    /\ EngineAtRest
    /\ ClientsAtRest
    /\ BookmarkAtRest
    /\ BootAtRest
    /\ AlertsAtRest
    /\ DueAtRest
    /\ CheckAtRest
    /\ NotifyAtRest

NextProvider ==
    \E d \in ProviderDomains : FetchRdapSelects(d) /\ UNCHANGED nonProviderVars

SpecProvider == InitProvider /\ [][NextProvider]_vars

\* C31: fetchRdap selects the provider by the lowercased last label of its
\* input, so two inputs that differ in letter case only are given the same
\* bootstrap entry and the same provider URL.
C31_ProviderByLowercasedTld ==
    /\ \A sel \in selections :
          sel.tld = toLowerCase(split(sel.domain)[Len(split(sel.domain))])
    /\ \A s1, s2 \in selections :
          toLowerCase(s1.domain) = toLowerCase(s2.domain)
          => s1.service = s2.service /\ s1.url = s2.url

\* ---------------------------------------------------------------------------
\* Specification of the two clients on caches that earlier calls, one a
\* millisecond, have filled to capacity, while a call for the first of those
\* names, started before that name was cached, is still waiting for its answer
\* ---------------------------------------------------------------------------
InFlightForFirst(svc) ==
    [NoFetch EXCEPT !.pc = "pending", !.svc = svc, !.domain = EarlierName(1),
                    !.type = IF svc = "dns" THEN DnsRecordType.A ELSE 0,
                    !.pending = [NoPending EXCEPT !.kind = "network"],
                    !.cacheRead = TRUE, !.calledAt = 0]

InitOverlap ==
    /\ responseCache = EarlierResponseCache(RESPONSE_CACHE_MAX)
    /\ dnsCache = EarlierDnsCache(DNS_CACHE_MAX)
    /\ dateNow = DNS_CACHE_MAX
    /\ ticks = 0
    /\ \E svc \in {"rdap", "dns"} :
          fetches = [f \in FetchIds |-> IF f = 1 THEN InFlightForFirst(svc) ELSE NoFetch]
    /\ fetchesStarted = 1
    /\ domainName = << >>
    /\ ComponentAtRest
    /\ AlertsAtRest
    /\ DueAtRest
    /\ CheckAtRest
    /\ BookmarkAtRest
    /\ BootAtRest
    /\ ProviderAtRest
    /\ NotifyAtRest

SpecOverlap == InitOverlap /\ [][NextCapacity]_vars

\* the entries a step drops from a cache that was full while it stores a new
\* key are the ones with the smallest timestamp of the entries it held
EvictsOldest(before, after, max) ==
    LET keysBefore == {before[i].key : i \in 1..Len(before)}
        keysAfter  == {after[i].key : i \in 1..Len(after)}
        stamps     == {before[i].value.timestamp : i \in 1..Len(before)}
    IN (/\ Len(before) = max
        /\ before # after
        /\ keysAfter \ keysBefore # {})
       => \A i \in 1..Len(before) :
             before[i].key \notin keysAfter
             => \A t \in stamps : before[i].value.timestamp <= t

\* C32: whenever an insertion makes a response cache exceed its capacity, the
\* entry evicted is the one with the smallest timestamp among those present.
C32_EvictsSmallestTimestamp ==
    [][/\ EvictsOldest(dnsCache, dnsCache', DNS_CACHE_MAX)
       /\ EvictsOldest(responseCache, responseCache', RESPONSE_CACHE_MAX)]_vars

\* C33: a 4xx answer is the last answer an RDAP query gets: the query has
\* resolved to a failure, every request it made is in its record, and it has
\* slept only before the requests that came before, never after the 4xx.
C33_ClientErrorNotRetried ==
    \A f \in FetchIds :
        \A i \in 1..Len(fetches[f].replies) :
            (fetches[f].svc = "rdap" /\ fetches[f].replies[i] = "4xx")
            => /\ i = Len(fetches[f].replies)
               /\ fetches[f].pc = "done"
               /\ ~fetches[f].result.success
               /\ fetches[f].result.error
               /\ fetches[f].requests = i
               /\ Len(fetches[f].waits) = i - 1

\* a query whose first request was answered 4xx has failed after that one
\* request, and another has failed on a 4xx that followed a 5xx
C33_Witness ==
    \E f, g \in FetchIds :
        /\ fetches[f].pc = "done"
        /\ fetches[f].replies = <<"4xx">>
        /\ fetches[f].requests = 1
        /\ fetches[f].waits = << >>
        /\ ~fetches[f].result.success
        /\ fetches[g].pc = "done"
        /\ fetches[g].replies = <<"5xx", "4xx">>
        /\ fetches[g].waits = <<1000>>

\* ---------------------------------------------------------------------------
\* Specification of the service worker over a store the foreground has filled:
\* scan passes that may overlap, the SYNC_ALERTS message of the last save still
\* on its way or handled, and the notifications shown
\* ---------------------------------------------------------------------------
MaxOverlap == 2     \* scan passes that may overlap
MaxShown == 2       \* notifications shown for one alert before the triggers stop

OverlapIds == 1..MaxOverlap

\* the alert saveAlert has stored under id for a domain and an input
SavedAlert(id, domain, input) ==
    [id |-> id, domain |-> domain, enabled |-> input.enabled,
     alertDate |-> input.alertDate, reminderFrequency |-> input.reminderFrequency,
     lastNotified |-> NoTime]

\* what the store holds after one save, or after one save for each domain
SavedStores ==
    { {SavedAlert(1, "a.com", s)} : s \in InputShapes }
    \cup { {SavedAlert(1, "a.com", s), SavedAlert(2, "b.com", t)} :
              s \in InputShapes, t \in InputShapes }

\* fewer than MaxShown notifications have been shown for every alert
MayTrigger == \A id \in Ids : notifications[id] < MaxShown

\* sendBackgroundNotification with the notification it shows: a
\* showNotification that resolves displays one notification for the alert
ShowNotification(p) ==
    /\ PassShow(p)
    /\ notifications' =
          IF passes'[p].pc = "saving"
          THEN [notifications EXCEPT ![passes[p].i] = @ + 1]
          ELSE notifications

\* what a step of the worker leaves alone
nonNotifyVars == <<dueVars, engineVars, checkVars, clientVars, bookmarkVars, bootVars,
                   providerVars, syncReport, dbVersion>>

InitNotify ==
    /\ store \in SavedStores
    /\ alerts = store
    /\ swInbox \in {<< >>, <<SyncMessage(store)>>}
    /\ calls = [c \in CallIds |-> NoCall]
    /\ passes = [p \in OverlapIds |-> IdlePass]
    /\ clock = 0
    /\ nextId = Cardinality(store) + 1
    /\ activated \in BOOLEAN
    /\ started = 0
    /\ syncReport = "none"
    /\ dbVersion = 0
    /\ NotifyAtRest
    /\ DueAtRest
    /\ domainName = << >>
    /\ EngineAtRest
    /\ ClientsAtRest
    /\ BookmarkAtRest
    /\ BootAtRest
    /\ ProviderAtRest
    /\ CheckAtRest

NextNotify ==
    \/ TriggerNotificationCheck /\ MayTrigger /\ UNCHANGED restVars
    \/ \E p \in OverlapIds : Activate(p) /\ UNCHANGED restVars
    \/ \E p \in OverlapIds : PeriodicSync(p) /\ MayTrigger /\ UNCHANGED restVars
    \/ \E p \in OverlapIds : HandleCheckNotifications(p) /\ UNCHANGED restVars
    \/ HandleSyncAlerts /\ UNCHANGED <<nonAlertVars, dbVersion>>
    \/ \E p \in OverlapIds : PassLoad(p) /\ UNCHANGED restVars
    \/ \E p \in OverlapIds : PassScan(p) /\ UNCHANGED restVars
    \/ \E p \in OverlapIds : ShowNotification(p) /\ UNCHANGED nonNotifyVars
    \/ \E p \in OverlapIds : PassSave(p) /\ UNCHANGED restVars
    \/ \E p \in OverlapIds : PassEnd(p) /\ UNCHANGED restVars
    \/ Tick /\ UNCHANGED restVars

SpecNotify == InitNotify /\ [][NextNotify]_vars

InLoop(p) == passes[p].pc \in {"scan", "showing", "saving"}

RemovalOf(x) ==
    \E c \in CallIds :
        \/ /\ calls[c].op = "removeAlert"
           /\ calls[c].pc = "deleting"
           /\ calls'[c].pc = "deleted"
           /\ calls[c].id = x.id
        \/ /\ calls[c].op \in {"removeAlertByDomain", "saveAlert"}
           /\ calls[c].pc = "removing"
           /\ calls'[c].pc = "removed"
           /\ calls[c].domain = x.domain

SaveFailsOverExisting(c) ==
    /\ calls[c].op = "saveAlert"
    /\ calls[c].pc = "put"
    /\ ~calls[c].ok
    /\ calls[c].n > 0
    /\ calls'[c].outcome = "threw"

\* C37: when saveAlert fails on the write of the new alert for a domain that
\* had an alert, an alert of that domain is in the store and in the cache
\* afterwards.
C37_FailedSaveKeepsPrevious ==
    [][\A c \in CallIds :
          SaveFailsOverExisting(c)
          => /\ \E x \in store' : x.domain = calls[c].domain
             /\ \E x \in alerts' : x.domain = calls[c].domain]_vars

ShowFails(p) ==
    /\ passes[p].pc = "showing"
    /\ passes'[p] # passes[p]
    /\ passes'[p].pc # "saving"

HoldsResponse(reply) == reply.kind \in {"ok", "http", "unparsable"}

\* Promise.race([fetchPromise, createTimeoutPromise(15 s)]) of one attempt of
\* the first fetchRdap settles: with a Response, or with a rejection, which
\* performRdapQuery handles at once
FetchRaceSettles(l) ==
    /\ lookups[l].pc = "rdap"
    /\ lookups[l].pending.kind = "network"
    /\ lookups[l].reply = NoReply
    /\ \E reply \in RdapReplies(lookups[l].retryCount) :
          IF HoldsResponse(reply)
          THEN /\ lookups' = [lookups EXCEPT ![l].reply = reply]
               /\ UNCHANGED <<domainName, mounted, debounceTimer, changes,
                              lookupsStarted, availabilityStatus, domainInfo,
                              isLoadingAvailability, isLoadingRdap, dnsCache,
                              responseCache>>
          ELSE AfterRdap(l, lookups[l],
                         FetchRdapAttempt(reply, lookups[l].retryCount))

\* the body of that Response has been read: response.text() of a failure,
\* response.json() of a 200.  No timer runs beside these two awaits.
BodyRead(l) ==
    /\ lookups[l].pc = "rdap"
    /\ lookups[l].reply # NoReply
    /\ AfterRdap(l, [lookups[l] EXCEPT !.reply = NoReply],
                 FetchRdapAttempt(lookups[l].reply, lookups[l].retryCount))

NextPasses ==
    \/ Mount /\ UNCHANGED nonEngineVars
    \/ \E l \in LookupIds : RdapReturns(l) /\ UNCHANGED nonEngineVars
    \/ \E l \in LookupIds : FetchRaceSettles(l) /\ UNCHANGED nonEngineVars
    \/ \E l \in LookupIds : BodyRead(l) /\ UNCHANGED nonEngineVars
    \/ \E l \in LookupIds : DnsSettles(l) /\ UNCHANGED nonEngineVars
    \/ \E l \in LookupIds : SoaSettles(l) /\ UNCHANGED nonEngineVars
    \/ \E l \in LookupIds : RetrySettles(l) /\ UNCHANGED nonEngineVars
    \/ \E l \in LookupIds : RetryTimeout(l) /\ UNCHANGED nonEngineVars
    \/ \E l \in LookupIds : LateRetrySettles(l) /\ UNCHANGED nonEngineVars

\* the steps a timer of the code, or the microtask queue, brings about: a
\* fetchRdap that returns before its first await, the races of a fetch with
\* createTimeoutPromise, and the 3 s timer of the reconciliation retry.  The
\* two DNS queries are granted whole, the reading of their bodies included.
PassesFairness ==
    \A l \in LookupIds :
        /\ WF_vars(RdapReturns(l) /\ UNCHANGED nonEngineVars)
        /\ WF_vars(FetchRaceSettles(l) /\ UNCHANGED nonEngineVars)
        /\ WF_vars(DnsSettles(l) /\ UNCHANGED nonEngineVars)
        /\ WF_vars(SoaSettles(l) /\ UNCHANGED nonEngineVars)
        /\ WF_vars(RetrySettles(l) /\ UNCHANGED nonEngineVars)
        /\ WF_vars(RetryTimeout(l) /\ UNCHANGED nonEngineVars)

SpecPasses == InitEngine /\ [][NextPasses]_vars /\ PassesFairness

\* the pass stands at one of its awaits
Running(l) == lookups[l].pc \in {"rdap", "dns", "soa", "race"}

\* checkDomainAvailabilityWithRdap has returned
Returned(l) == lookups[l].pc \in {"done", "late"}

\* C40: every resolution pass terminates, each of its network waits being
\* bounded by a timer and its RDAP attempts by MAX_RETRIES, and when it ends
\* isLoadingAvailability and isLoadingRdap are both false
C40_PassTerminatesFlagsFalse ==
    /\ \A l \in LookupIds : Running(l) ~> Returned(l)
    /\ [][\A l \in LookupIds :
            (Running(l) /\ Returned(l)') =>
                (~isLoadingAvailability' /\ ~isLoadingRdap')]_vars

====
